---- MODULE Spec2Model ----
(***************************************************************************)
(* Model of the canonical (signature pre-image) protobuf codec of          *)
(* proto/tendermint/types/canonical.pb.go: CanonicalPartSetHeader,         *)
(* CanonicalBlockID, CanonicalProposal and CanonicalVote with their        *)
(* Size / MarshalToSizedBuffer / Marshal / Unmarshal methods, the varint   *)
(* writer encodeVarintCanonical and the field skipper skipCanonical.       *)
(*                                                                         *)
(* Machine integers are bit vectors: a 64-bit word is a sequence of 64     *)
(* bits, least significant first (w[1] is bit 0), a 32-bit word a sequence *)
(* of 32 bits, always built as an explicit tuple.  Conversions between     *)
(* widths are sign or zero extensions and truncations, as in Go.  A byte   *)
(* is a number in 0..255 and a byte slice a sequence of bytes; Go index j  *)
(* is sequence index j + 1.  Buffer indices and lengths of the bounded     *)
(* inputs are small and are plain integers.                                *)
(***************************************************************************)
EXTENDS Integers, Sequences, FiniteSets, TLC

(***************************************************************************)
(* Bit vectors                                                             *)
(***************************************************************************)
\* 2^k for k in 0..30
Pow2(k) == <<1, 2, 4, 8, 16, 32, 64, 128, 256, 512, 1024, 2048, 4096, 8192, 16384, 32768, 65536, 131072, 262144, 524288, 1048576, 2097152, 4194304, 8388608, 16777216, 33554432, 67108864, 134217728, 268435456, 536870912, 1073741824>>[k + 1]

\* bit k (0-based) of the natural number n
BitOf(n, k) == IF k > 30 THEN 0 ELSE (n \div Pow2(k)) % 2

\* the w-bit word of a natural number n < 2^31
WordOfNat(n, w) == CHOOSE out \in {<<>> \o [k \in 1..w |-> BitOf(v, k - 1)] : v \in {n}} : TRUE

Not(x) == <<>> \o [k \in 1..Len(x) |-> 1 - x[k]]

\* the w-bit two's complement word of a small integer n (|n| < 2^31)
WordOfInt(n, w) == IF n >= 0 THEN WordOfNat(n, w) ELSE Not(WordOfNat(-n - 1, w))

\* the 64-bit word whose little-endian bytes are bs
WordOfBytes(bs) == CHOOSE out \in {<<>> \o [k \in 1..(8 * Len(b)) |-> BitOf(b[((k - 1) \div 8) + 1], (k - 1) % 8)] : b \in {bs}} : TRUE

IsZero(x) == \A k \in 1..Len(x) : x[k] = 0

\* the sign bit of a signed word
IsNeg(x) == x[Len(x)] = 1

\* no bit at or above position 30 is set: the value is a natural below 2^30
IsSmall(x) == \A k \in 31..Len(x) : x[k] = 0

\* the value of the bits lo..hi of x (1-based, at most 30 of them), by halves
RECURSIVE NatOfBits(_, _, _)
NatOfBits(x, lo, hi) ==
    IF lo > hi THEN 0
    ELSE IF lo = hi THEN x[lo]
    ELSE CHOOSE out \in {NatOfBits(x, lo, mid) + Pow2(mid - lo + 1) * NatOfBits(x, mid + 1, hi) : mid \in {(lo + hi) \div 2}} : TRUE

\* the value of a small word
NatOf(x) == NatOfBits(x, 1, IF Len(x) < 30 THEN Len(x) ELSE 30)

\* x >> n on an unsigned word
Shr(x, n) == <<>> \o [k \in 1..Len(x) |-> IF k + n <= Len(x) THEN x[k + n] ELSE 0]

\* uint64(x) of a uint32 x
ZeroExt64(x) == <<>> \o [k \in 1..64 |-> IF k <= Len(x) THEN x[k] ELSE 0]

\* uint64(x) of an int32 x: Go converts a signed value by sign extension
SignExt64(x) == <<>> \o [k \in 1..64 |-> IF k <= Len(x) THEN x[k] ELSE x[Len(x)]]

\* acc | (T(b & 0x7F) << shift) in a type T of Len(acc) bits: bits shifted
\* past the width are lost
OrShl7(acc, b, shift) == CHOOSE out \in {<<>> \o [k \in 1..Len(a) |-> IF k - 1 >= shift /\ k - 1 < shift + 7 /\ BitOf(b % 128, k - 1 - shift) = 1 THEN 1 ELSE a[k]] : a \in {acc}} : TRUE

\* the carry into bit k of x + y: some lower position generates a carry and
\* every position between it and k passes it on
Carry(x, y, k) == IF \E j \in 1..(k - 1) : x[j] = 1 /\ y[j] = 1 /\ \A h \in (j + 1)..(k - 1) : x[h] + y[h] = 1 THEN 1 ELSE 0

\* x + y on words of equal width, wrapping
Add(x, y) == CHOOSE r \in {IF IsSmall(a) /\ IsSmall(b) THEN WordOfNat(NatOf(a) + NatOf(b), Len(a)) ELSE <<>> \o [k \in 1..Len(a) |-> (a[k] + b[k] + Carry(a, b, k)) % 2] : a \in {x}, b \in {y}} : TRUE

\* signed x > n for a small natural n
GtNat(x, n) == IF IsNeg(x) THEN FALSE ELSE IF IsSmall(x) THEN NatOf(x) > n ELSE TRUE

\* math_bits.Len64(x): the number of bits needed to represent x
Len64(x) == CHOOSE k \in 0..64 : (k = 0 \/ x[k] = 1) /\ \A j \in (k + 1)..64 : x[j] = 0

\* byte j (0-based) of a 64-bit word
ByteOf(x, j) == x[8*j+1] + 2*x[8*j+2] + 4*x[8*j+3] + 8*x[8*j+4] + 16*x[8*j+5] + 32*x[8*j+6] + 64*x[8*j+7] + 128*x[8*j+8]

Zero64 == WordOfNat(0, 64)

Zero32 == WordOfNat(0, 32)

(***************************************************************************)
(* Output buffers.  A buffer state is [dAtA, i, panic]: the byte slice     *)
(* being filled, the write index (Go index, 0-based) and whether an index  *)
(* out of range was used (a run-time panic in Go).                         *)
(***************************************************************************)
InRange(dAtA, j) == j >= 0 /\ j < Len(dAtA)

\* dAtA with bs laid over the positions j, j+1, ...
Overlay(dAtA, j, bs) == <<>> \o [k \in 1..Len(dAtA) |-> IF k - 1 >= j /\ k - 1 < j + Len(bs) THEN bs[k - j] ELSE dAtA[k]]

\* dAtA[j+k] = bs[k] for each k in turn: an index out of range panics
StoreSeq(st, j, bs) == CHOOSE r \in {IF bs # <<>> /\ (j < 0 \/ j + Len(bs) > Len(s.dAtA)) THEN [s EXCEPT !.panic = TRUE] ELSE [s EXCEPT !.dAtA = Overlay(s.dAtA, j, bs)] : s \in {st}} : TRUE

\* copy(dAtA[j:], bs): slicing at j panics when j is out of 0..len; copy
\* moves min(len(dAtA[j:]), len(bs)) bytes
CopyAt(st, j, bs) == CHOOSE r \in {IF j < 0 \/ j > Len(s.dAtA) THEN [s EXCEPT !.panic = TRUE] ELSE [s EXCEPT !.dAtA = Overlay(s.dAtA, j, bs)] : s \in {st}} : TRUE

\* i--; dAtA[i] = b
PutTag(st, b) == [StoreSeq(st, st.i - 1, <<b>>) EXCEPT !.i = st.i - 1]

\* a size that counts eight value bits to the byte
sovCanonicalEightBits(x) == (Len64([x EXCEPT ![1] = 1]) + 7) \div 8

\* (math_bits.Len64(x|1) + 6) / 7
sovCanonical(x) == (Len64([x EXCEPT ![1] = 1]) + 6) \div 7

\* the low 7 bits of v, with the continuation bit
Low7(v) == v[1] + 2*v[2] + 4*v[3] + 8*v[4] + 16*v[5] + 32*v[6] + 64*v[7]

\* v >= 1<<7
Ge128(v) == \E k \in 8..64 : v[k] = 1

\* the bytes the loop of encodeVarintCanonical stores at offset, offset+1, ...
RECURSIVE VarintLoop(_)
VarintLoop(v) == IF Ge128(v) THEN <<Low7(v) + 128>> \o VarintLoop(Shr(v, 7)) ELSE <<Low7(v)>>

\* i = encodeVarintCanonical(dAtA, i, v): offset -= sovCanonical(v); base := offset;
\* the loop stores from offset upwards; return base
encodeVarintCanonical(st, v) == [StoreSeq(st, st.i - sovCanonical(v), VarintLoop(v)) EXCEPT !.i = st.i - sovCanonical(v)]

\* a fixed64 writer that stores the most significant byte first
PutFixed64BigEndian(st, v) == [CopyAt(st, st.i - 8, <<>> \o [j \in 1..8 |-> ByteOf(v, 8 - j)]) EXCEPT !.i = st.i - 8]

\* i -= 8; encoding_binary.LittleEndian.PutUint64(dAtA[i:], v)
PutFixed64(st, v) == [CopyAt(st, st.i - 8, <<>> \o [j \in 1..8 |-> ByteOf(v, j - 1)]) EXCEPT !.i = st.i - 8]

\* i -= len(bs); copy(dAtA[i:], bs); i = encodeVarintCanonical(dAtA, i, uint64(len(bs)))
PutBytes(st, bs) == encodeVarintCanonical([CopyAt(st, st.i - Len(bs), bs) EXCEPT !.i = st.i - Len(bs)], WordOfNat(Len(bs), 64))

\* make([]byte, size)
MakeBuf(size) == [dAtA |-> <<>> \o [j \in 1..size |-> 0], i |-> size, panic |-> FALSE, err |-> "nil"]

\* if len(m.F) > 0 { the bytes, their length, i--; dAtA[i] = tag }
PutBytesField(st, bs, tag) == IF Len(bs) > 0 THEN PutTag(PutBytes(st, bs), tag) ELSE st

\* if m.F != 0 { i -= 8; PutUint64(dAtA[i:], uint64(m.F)); i--; dAtA[i] = tag }
PutFixed64Field(st, v, tag) == IF ~IsZero(v) THEN PutTag(PutFixed64(st, v), tag) ELSE st

\* if m.F != 0 { i = encodeVarintCanonical(dAtA, i, uint64(m.F)); i--; dAtA[i] = tag }
\* nonzero is the test m.F != 0, v the converted value uint64(m.F)
PutVarintField(st, nonzero, v, tag) == IF nonzero THEN PutTag(encodeVarintCanonical(st, v), tag) ELSE st

(***************************************************************************)
(* Messages.  An optional (pointer) field is a sequence of length 0 (nil)  *)
(* or 1.  A byte slice field holds its content: nil and empty are both the *)
(* empty sequence.                                                         *)
(*   CanonicalPartSetHeader  [Total : uint32, Hash : bytes]                *)
(*   CanonicalBlockID        [Hash : bytes, PartSetHeader]                 *)
(*   CanonicalProposal       [Type : int32, Height, Round, POLRound :      *)
(*                            int64, BlockID : optional, Timestamp,        *)
(*                            ChainID : bytes]                             *)
(*   CanonicalVote           [Type : int32, Height, Round : int64,         *)
(*                            BlockID : optional, Timestamp, ChainID,      *)
(*                            VoteExtension : optional]                    *)
(* A time.Time is the pair [Seconds : int64, Nanos : int32] of its Unix    *)
(* seconds and its nanosecond within the second.                           *)
(***************************************************************************)
ZeroPartSetHeader == [Total |-> Zero32, Hash |-> <<>>]

ZeroBlockID == [Hash |-> <<>>, PartSetHeader |-> ZeroPartSetHeader]

\* time.Time{}: January 1, year 1, 00:00:00 UTC, Unix second -62135596800
ZeroTime == [Seconds |-> WordOfBytes(<<0, 9, 110, 136, 241, 255, 255, 255>>), Nanos |-> Zero32]

ZeroVoteExtension == [AppDataToSign |-> <<>>]

ZeroProposal == [Type |-> Zero32, Height |-> Zero64, Round |-> Zero64, POLRound |-> Zero64, BlockID |-> <<>>, Timestamp |-> ZeroTime, ChainID |-> <<>>]

ZeroVote == [Type |-> Zero32, Height |-> Zero64, Round |-> Zero64, BlockID |-> <<>>, Timestamp |-> ZeroTime, ChainID |-> <<>>, VoteExtension |-> <<>>]

(***************************************************************************)
(* The timestamp codec of the protobuf runtime (StdTimeMarshalTo,          *)
(* SizeOfStdTime, StdTimeUnmarshal): a time is the nested message          *)
(* {1: varint seconds, 2: varint nanos}, each omitted when zero; seconds   *)
(* outside [0001-01-01, 10000-01-01) are rejected.                         *)
(***************************************************************************)
\* unsigned x < y: they differ, and x has the 0 at the highest bit where they do
LtUnsigned(x, y) == \E k \in 1..Len(x) : x[k] < y[k] /\ \A j \in (k + 1)..Len(x) : x[j] = y[j]

\* signed x < y on words of equal width
LtSigned(x, y) == IF IsNeg(x) # IsNeg(y) THEN IsNeg(x) ELSE LtUnsigned(x, y)

minValidSeconds == WordOfBytes(<<0, 9, 110, 136, 241, 255, 255, 255>>)

maxValidSeconds == WordOfBytes(<<128, 65, 244, 255, 58, 0, 0, 0>>)

validateTimestamp(t) == IF LtSigned(t.Seconds, minValidSeconds) \/ ~LtSigned(t.Seconds, maxValidSeconds) THEN "ErrTimestampRange" ELSE "nil"

Timestamp_Size(t) == (IF ~IsZero(t.Seconds) THEN 1 + sovCanonical(t.Seconds) ELSE 0) + (IF ~IsZero(t.Nanos) THEN 1 + sovCanonical(SignExt64(t.Nanos)) ELSE 0)

SizeOfStdTime(t) == IF validateTimestamp(t) # "nil" THEN 0 ELSE Timestamp_Size(t)

Timestamp_MarshalToSizedBuffer(t, st) == PutVarintField(PutVarintField(st, ~IsZero(t.Nanos), SignExt64(t.Nanos), 16), ~IsZero(t.Seconds), t.Seconds, 8)

\* n, err := StdTimeMarshalTo(t, dAtA[from:]): the bytes written at from and their number
StdTimeMarshalTo(t, st, from) ==
    IF from < 0 \/ from > Len(st.dAtA) THEN [st |-> [st EXCEPT !.panic = TRUE], n |-> 0, err |-> "nil"]
    ELSE IF validateTimestamp(t) # "nil" THEN [st |-> st, n |-> 0, err |-> validateTimestamp(t)]
    ELSE [st |-> CopyAt(st, from, Timestamp_MarshalToSizedBuffer(t, MakeBuf(Timestamp_Size(t))).dAtA), n |-> Timestamp_Size(t), err |-> "nil"]

(***************************************************************************)
(* VoteExtensionToSign (declared beside the canonical types): an opaque    *)
(* payload carried as the nested message {1: bytes app_data_to_sign}.      *)
(***************************************************************************)
VoteExtensionToSign_Size(m) == IF Len(m.AppDataToSign) > 0 THEN 1 + Len(m.AppDataToSign) + sovCanonical(WordOfNat(Len(m.AppDataToSign), 64)) ELSE 0

VoteExtensionToSign_MarshalToSizedBuffer(m, st) == PutBytesField(st, m.AppDataToSign, 10)

(***************************************************************************)
(* Size                                                                    *)
(***************************************************************************)
\* n += 1 + l + sovCanonical(uint64(l))
SizeDelimited(l) == 1 + l + sovCanonical(WordOfNat(l, 64))

\* a size that counts one byte for the varint of total
CanonicalPartSetHeader_SizeOneByteTotal(m) == (IF ~IsZero(m.Total) THEN 2 ELSE 0) + (IF Len(m.Hash) > 0 THEN SizeDelimited(Len(m.Hash)) ELSE 0)

CanonicalPartSetHeader_Size(m) == (IF ~IsZero(m.Total) THEN 1 + sovCanonical(ZeroExt64(m.Total)) ELSE 0) + (IF Len(m.Hash) > 0 THEN SizeDelimited(Len(m.Hash)) ELSE 0)

CanonicalBlockID_Size(m) == (IF Len(m.Hash) > 0 THEN SizeDelimited(Len(m.Hash)) ELSE 0) + SizeDelimited(CanonicalPartSetHeader_Size(m.PartSetHeader))

\* (x << 1) ^ (x >> 63) on an int64: the zig-zag mapping of sozCanonical
ZigZag(x) == <<>> \o [k \in 1..64 |-> ((IF k = 1 THEN 0 ELSE x[k - 1]) + x[64]) % 2]

\* a conversion that zig-zags the proof-of-lock round
POLRoundZigZag(m) == ZigZag(m.POLRound)

\* uint64(m.POLRound): the bits of the int64, unchanged
POLRoundBits(m) == m.POLRound

CanonicalProposal_Size(m) ==
    (IF ~IsZero(m.Type) THEN 1 + sovCanonical(SignExt64(m.Type)) ELSE 0)
    + (IF ~IsZero(m.Height) THEN 9 ELSE 0)
    + (IF ~IsZero(m.Round) THEN 9 ELSE 0)
    + (IF ~IsZero(m.POLRound) THEN 1 + sovCanonical(POLRoundBits(m)) ELSE 0)
    + (IF m.BlockID # <<>> THEN SizeDelimited(CanonicalBlockID_Size(m.BlockID[1])) ELSE 0)
    + SizeDelimited(SizeOfStdTime(m.Timestamp))
    + (IF Len(m.ChainID) > 0 THEN SizeDelimited(Len(m.ChainID)) ELSE 0)

CanonicalVote_Size(m) ==
    (IF ~IsZero(m.Type) THEN 1 + sovCanonical(SignExt64(m.Type)) ELSE 0)
    + (IF ~IsZero(m.Height) THEN 9 ELSE 0)
    + (IF ~IsZero(m.Round) THEN 9 ELSE 0)
    + (IF m.BlockID # <<>> THEN SizeDelimited(CanonicalBlockID_Size(m.BlockID[1])) ELSE 0)
    + SizeDelimited(SizeOfStdTime(m.Timestamp))
    + (IF Len(m.ChainID) > 0 THEN SizeDelimited(Len(m.ChainID)) ELSE 0)
    + (IF m.VoteExtension # <<>> THEN SizeDelimited(VoteExtensionToSign_Size(m.VoteExtension[1])) ELSE 0)

(***************************************************************************)
(* MarshalToSizedBuffer: each method fills dAtA[:i] from the end, the last *)
(* field first, and returns len(dAtA) - i.  A nested call on dAtA[:i]      *)
(* continues at the caller's index in the same backing array.              *)
(***************************************************************************)
\* a nested-message writer that leaves out a message of size zero
PutNestedOmitEmpty(st, inner, tag) == IF inner.err # "nil" THEN inner ELSE IF st.i = inner.i THEN st ELSE PutTag(encodeVarintCanonical(inner, WordOfNat(st.i - inner.i, 64)), tag)

\* size, err := nested.MarshalToSizedBuffer(dAtA[:i]); i -= size;
\* i = encodeVarintCanonical(dAtA, i, uint64(size)); i--; dAtA[i] = tag
PutNested(st, inner, tag) == IF inner.err # "nil" THEN inner ELSE PutTag(encodeVarintCanonical(inner, WordOfNat(st.i - inner.i, 64)), tag)

\* a part-set-header writer that puts the hash in front of the total
CanonicalPartSetHeader_MarshalHashFirst(m, st) == PutBytesField(PutVarintField(st, ~IsZero(m.Total), ZeroExt64(m.Total), 8), m.Hash, 18)

CanonicalPartSetHeader_MarshalToSizedBuffer(m, st) == PutVarintField(PutBytesField(st, m.Hash, 18), ~IsZero(m.Total), ZeroExt64(m.Total), 8)

\* a block-id writer that leaves out a part-set header whose fields are zero
CanonicalBlockID_MarshalOmitZeroHeader(m, st) == PutBytesField(IF m.PartSetHeader = ZeroPartSetHeader THEN st ELSE PutNested(st, CanonicalPartSetHeader_MarshalToSizedBuffer(m.PartSetHeader, st), 18), m.Hash, 10)

CanonicalBlockID_MarshalToSizedBuffer(m, st) == PutBytesField(PutNested(st, CanonicalPartSetHeader_MarshalToSizedBuffer(m.PartSetHeader, st), 18), m.Hash, 10)

\* a timestamp writer that leaves out a timestamp whose encoding is empty
PutStdTimeOmitEmpty(st, r, tag) ==
    IF r.err # "nil" THEN [st EXCEPT !.err = r.err]
    ELSE IF r.n = 0 THEN st
    ELSE PutTag(encodeVarintCanonical([r.st EXCEPT !.i = st.i - r.n], WordOfNat(r.n, 64)), tag)

\* if err != nil {return 0, err}; i -= n; i = encodeVarintCanonical(dAtA, i, uint64(n));
\* i--; dAtA[i] = tag, for the result r of StdTimeMarshalTo
PutStdTimeResult(st, r, tag) ==
    IF r.err # "nil" THEN [st EXCEPT !.err = r.err]
    ELSE PutTag(encodeVarintCanonical([r.st EXCEPT !.i = st.i - r.n], WordOfNat(r.n, 64)), tag)

\* n, err := StdTimeMarshalTo(ts, dAtA[i-SizeOfStdTime(ts):]) and what follows it
PutStdTime(st, ts, tag) == PutStdTimeResult(st, StdTimeMarshalTo(ts, st, st.i - SizeOfStdTime(ts)), tag)

\* The fields are written one after the other, the last field first: each
\* s_k below is the buffer after one more field.  Once writing the timestamp
\* has failed the call has returned: nothing more is written.
CanonicalProposal_MarshalToSizedBuffer(m, st) ==
    CHOOSE r \in
      {IF s6.err # "nil" THEN s6 ELSE PutVarintField(s6, ~IsZero(m.Type), SignExt64(m.Type), 8) : s6 \in
      {IF s5.err # "nil" THEN s5 ELSE PutFixed64Field(s5, m.Height, 17) : s5 \in
      {IF s4.err # "nil" THEN s4 ELSE PutFixed64Field(s4, m.Round, 25) : s4 \in
      {IF s3.err # "nil" THEN s3 ELSE PutVarintField(s3, ~IsZero(m.POLRound), POLRoundBits(m), 32) : s3 \in
      {IF s2.err # "nil" \/ m.BlockID = <<>> THEN s2 ELSE PutNested(s2, CanonicalBlockID_MarshalToSizedBuffer(m.BlockID[1], s2), 42) : s2 \in
      {PutStdTime(s1, m.Timestamp, 50) : s1 \in
      {PutBytesField(st, m.ChainID, 58)}}}}}}} : TRUE

CanonicalVote_MarshalToSizedBuffer(m, st) ==
    CHOOSE r \in
      {IF s6.err # "nil" THEN s6 ELSE PutVarintField(s6, ~IsZero(m.Type), SignExt64(m.Type), 8) : s6 \in
      {IF s5.err # "nil" THEN s5 ELSE PutFixed64Field(s5, m.Height, 17) : s5 \in
      {IF s4.err # "nil" THEN s4 ELSE PutFixed64Field(s4, m.Round, 25) : s4 \in
      {IF s3.err # "nil" \/ m.BlockID = <<>> THEN s3 ELSE PutNested(s3, CanonicalBlockID_MarshalToSizedBuffer(m.BlockID[1], s3), 34) : s3 \in
      {PutStdTime(s2, m.Timestamp, 42) : s2 \in
      {PutBytesField(s1, m.ChainID, 50) : s1 \in
      {IF m.VoteExtension = <<>> THEN st ELSE PutNested(st, VoteExtensionToSign_MarshalToSizedBuffer(m.VoteExtension[1], st), 58)}}}}}}} : TRUE

(***************************************************************************)
(* Marshal: size := m.Size(); dAtA = make([]byte, size);                   *)
(* n, err := m.MarshalToSizedBuffer(dAtA[:size]); return dAtA[:n], nil     *)
(* The result is [dAtA, err, panic, i]: the returned slice (empty for      *)
(* nil), the error, whether the call panicked, and the final write index.  *)
(***************************************************************************)
\* a Marshal that hands out the buffer as it stands when the call failed
MarshalResultPartial(st) ==
    IF st.panic THEN [dAtA |-> <<>>, err |-> "nil", panic |-> TRUE, i |-> st.i]
    ELSE IF st.err # "nil" THEN [dAtA |-> st.dAtA, err |-> st.err, panic |-> FALSE, i |-> st.i]
    ELSE [dAtA |-> SubSeq(st.dAtA, 1, Len(st.dAtA) - st.i), err |-> "nil", panic |-> FALSE, i |-> st.i]

MarshalResult(st) ==
    IF st.panic THEN [dAtA |-> <<>>, err |-> "nil", panic |-> TRUE, i |-> st.i]
    ELSE IF st.err # "nil" THEN [dAtA |-> <<>>, err |-> st.err, panic |-> FALSE, i |-> st.i]
    ELSE [dAtA |-> SubSeq(st.dAtA, 1, Len(st.dAtA) - st.i), err |-> "nil", panic |-> FALSE, i |-> st.i]

CanonicalPartSetHeader_Marshal(m) == MarshalResult(CanonicalPartSetHeader_MarshalToSizedBuffer(m, MakeBuf(CanonicalPartSetHeader_Size(m))))

CanonicalBlockID_Marshal(m) == MarshalResult(CanonicalBlockID_MarshalToSizedBuffer(m, MakeBuf(CanonicalBlockID_Size(m))))

CanonicalProposal_Marshal(m) == MarshalResult(CanonicalProposal_MarshalToSizedBuffer(m, MakeBuf(CanonicalProposal_Size(m))))

CanonicalVote_Marshal(m) == MarshalResult(CanonicalVote_MarshalToSizedBuffer(m, MakeBuf(CanonicalVote_Size(m))))

(***************************************************************************)
(* Decoding.  A reader result is [val, iNdEx, err, panic]; a decoder state *)
(* is [m, iNdEx, err, panic]: the message being filled in place, the read  *)
(* index, the error returned ("nil" for none) and whether a byte outside   *)
(* the slice was indexed (a run-time panic in Go).                         *)
(***************************************************************************)
ErrIntOverflowCanonical == "proto: integer overflow"

ErrInvalidLengthCanonical == "proto: negative length found during unmarshaling"

ErrUnexpectedEndOfGroupCanonical == "proto: unexpected end of group"

ErrUnexpectedEOF == "unexpected EOF"

ErrWrongWireType == "proto: wrong wireType"

ErrIllegalTag == "proto: illegal tag"

ErrEndGroupNonGroup == "proto: wiretype end group for non-group"

ErrIllegalWireType == "proto: illegal wireType"

\* a varint loop that does not test for the end of the input
RECURSIVE VarintReadNoEOF(_, _, _, _)
VarintReadNoEOF(dAtA, iNdEx, shift, acc) ==
    IF shift >= 64 THEN [val |-> acc, iNdEx |-> iNdEx, err |-> ErrIntOverflowCanonical, panic |-> FALSE]
    ELSE IF ~InRange(dAtA, iNdEx) THEN [val |-> acc, iNdEx |-> iNdEx, err |-> "nil", panic |-> TRUE]
    ELSE IF dAtA[iNdEx + 1] < 128 THEN [val |-> OrShl7(acc, dAtA[iNdEx + 1], shift), iNdEx |-> iNdEx + 1, err |-> "nil", panic |-> FALSE]
    ELSE CHOOSE r \in {VarintReadNoEOF(dAtA, iNdEx + 1, shift + 7, a) : a \in {OrShl7(acc, dAtA[iNdEx + 1], shift)}} : TRUE

\* for shift := uint(0); ; shift += 7 { if shift >= 64 {overflow}; if iNdEx >= l {EOF};
\*   b := dAtA[iNdEx]; iNdEx++; acc |= T(b&0x7F) << shift; if b < 0x80 {break} }
RECURSIVE VarintRead(_, _, _, _)
VarintRead(dAtA, iNdEx, shift, acc) ==
    IF shift >= 64 THEN [val |-> acc, iNdEx |-> iNdEx, err |-> ErrIntOverflowCanonical, panic |-> FALSE]
    ELSE IF iNdEx >= Len(dAtA) THEN [val |-> acc, iNdEx |-> iNdEx, err |-> ErrUnexpectedEOF, panic |-> FALSE]
    ELSE IF ~InRange(dAtA, iNdEx) THEN [val |-> acc, iNdEx |-> iNdEx, err |-> "nil", panic |-> TRUE]
    ELSE IF dAtA[iNdEx + 1] < 128 THEN [val |-> OrShl7(acc, dAtA[iNdEx + 1], shift), iNdEx |-> iNdEx + 1, err |-> "nil", panic |-> FALSE]
    ELSE CHOOSE r \in {VarintRead(dAtA, iNdEx + 1, shift + 7, a) : a \in {OrShl7(acc, dAtA[iNdEx + 1], shift)}} : TRUE

\* the varint loop into a fresh (zero) accumulator of w bits
ReadVarint(dAtA, iNdEx, w) == VarintRead(dAtA, iNdEx, 0, WordOfNat(0, w))

\* fieldNum := int32(wire >> 3), as a case selector: 0 when fieldNum <= 0, the
\* number itself when it is below 2^30, and 2^30 for every larger int32
fieldNumOf(wire) == CHOOSE out \in {IF IsNeg(f) \/ IsZero(f) THEN 0 ELSE IF IsSmall(f) THEN NatOf(f) ELSE 1073741824 : f \in {SubSeq(wire, 4, 35)}} : TRUE

\* a wire type taken from the low two bits only
wireTypeOfTwoBits(wire) == wire[1] + 2 * wire[2]

\* wireType := int(wire & 0x7)
wireTypeOf(wire) == wire[1] + 2 * wire[2] + 4 * wire[3]

\* var n int; the varint loop (its result is r); if n < 0 {ErrInvalidLength};
\* postIndex := iNdEx + n; if postIndex < 0 {ErrInvalidLength}; if postIndex > l {EOF}
\* val is postIndex when err is "nil"
ReadLength(dAtA, iNdEx) ==
    CHOOSE res \in
      {IF r.err # "nil" \/ r.panic THEN [r EXCEPT !.val = 0]
       ELSE IF IsNeg(r.val) THEN [r EXCEPT !.val = 0, !.err = ErrInvalidLengthCanonical]
       ELSE CHOOSE res2 \in
              {IF IsNeg(postIndex) THEN [r EXCEPT !.val = 0, !.err = ErrInvalidLengthCanonical]
               ELSE IF GtNat(postIndex, Len(dAtA)) THEN [r EXCEPT !.val = 0, !.err = ErrUnexpectedEOF]
               ELSE [r EXCEPT !.val = NatOf(postIndex)]
               : postIndex \in {Add(WordOfNat(r.iNdEx, 64), r.val)}} : TRUE
       : r \in {ReadVarint(dAtA, iNdEx, 64)}} : TRUE

\* dAtA[from:to] (Go indices)
Slice(dAtA, from, to) == SubSeq(dAtA, from + 1, to)

(***************************************************************************)
(* skipCanonical(dAtA): the length of the field (or group) at the start of *)
(* dAtA.  The result is [n, err, panic] with n a 64-bit int: the index may *)
(* run past the end of the slice, the callers check it.                    *)
(***************************************************************************)
\* a varint skipper that steps over one byte only
SkipVarintOneByte(dAtA, iNdEx, shift) ==
    IF iNdEx >= Len(dAtA) THEN [val |-> 0, iNdEx |-> iNdEx, err |-> ErrUnexpectedEOF, panic |-> FALSE]
    ELSE [val |-> 0, iNdEx |-> iNdEx + 1, err |-> "nil", panic |-> FALSE]

\* case 0: for shift := uint(0); ; shift += 7 { if shift >= 64 {overflow};
\*   if iNdEx >= l {EOF}; iNdEx++; if dAtA[iNdEx-1] < 0x80 {break} }
RECURSIVE SkipVarint(_, _, _)
SkipVarint(dAtA, iNdEx, shift) ==
    IF shift >= 64 THEN [val |-> 0, iNdEx |-> iNdEx, err |-> ErrIntOverflowCanonical, panic |-> FALSE]
    ELSE IF iNdEx >= Len(dAtA) THEN [val |-> 0, iNdEx |-> iNdEx, err |-> ErrUnexpectedEOF, panic |-> FALSE]
    ELSE IF ~InRange(dAtA, iNdEx) THEN [val |-> 0, iNdEx |-> iNdEx, err |-> "nil", panic |-> TRUE]
    ELSE IF dAtA[iNdEx + 1] < 128 THEN [val |-> 0, iNdEx |-> iNdEx + 1, err |-> "nil", panic |-> FALSE]
    ELSE SkipVarint(dAtA, iNdEx + 1, shift + 7)

SkipResult(n, err, panic) == [n |-> n, err |-> err, panic |-> panic]

RECURSIVE skipLoop(_, _, _)
\* the end of one field: if depth == 0 {return iNdEx, nil}, else the next iteration
skipNext(dAtA, iNdEx, depth) == IF depth = 0 THEN SkipResult(WordOfNat(iNdEx, 64), "nil", FALSE) ELSE skipLoop(dAtA, iNdEx, depth)

\* case 2: the varint loop into length (its result is len); if length < 0
\* {ErrInvalidLength}; iNdEx += length (the sum); if iNdEx < 0 {ErrInvalidLength}
skipLength(dAtA, depth, len0) ==
    CHOOSE out \in
      {IF len.err # "nil" \/ len.panic THEN SkipResult(Zero64, len.err, len.panic)
       ELSE IF IsNeg(len.val) THEN SkipResult(Zero64, ErrInvalidLengthCanonical, FALSE)
       ELSE CHOOSE res \in
              {IF IsNeg(sum) THEN SkipResult(Zero64, ErrInvalidLengthCanonical, FALSE)
               ELSE IF depth = 0 THEN SkipResult(sum, "nil", FALSE)
               ELSE IF ~IsSmall(sum) THEN SkipResult(Zero64, ErrUnexpectedEOF, FALSE)
               ELSE skipLoop(dAtA, NatOf(sum), depth)
               : sum \in {Add(WordOfNat(len.iNdEx, 64), len.val)}} : TRUE
       : len \in {len0}} : TRUE

\* switch wireType, for the tag reader's result t
skipWireType(dAtA, depth, t, wireType) ==
    CASE wireType = 0 -> CHOOSE res \in {IF v.err # "nil" \/ v.panic THEN SkipResult(Zero64, v.err, v.panic) ELSE skipNext(dAtA, v.iNdEx, depth) : v \in {SkipVarint(dAtA, t.iNdEx, 0)}} : TRUE
      [] wireType = 1 -> skipNext(dAtA, t.iNdEx + 8, depth)
      [] wireType = 2 -> skipLength(dAtA, depth, ReadVarint(dAtA, t.iNdEx, 64))
      [] wireType = 3 -> skipNext(dAtA, t.iNdEx, depth + 1)
      [] wireType = 4 -> IF depth = 0 THEN SkipResult(Zero64, ErrUnexpectedEndOfGroupCanonical, FALSE) ELSE skipNext(dAtA, t.iNdEx, depth - 1)
      [] wireType = 5 -> skipNext(dAtA, t.iNdEx + 4, depth)
      [] OTHER -> SkipResult(Zero64, ErrIllegalWireType, FALSE)

\* for iNdEx < l { the varint loop into wire (its result is t); wireType := int(wire & 0x7);
\* switch wireType }; return 0, io.ErrUnexpectedEOF
skipLoop(dAtA, iNdEx, depth) ==
    IF iNdEx >= Len(dAtA) THEN SkipResult(Zero64, ErrUnexpectedEOF, FALSE)
    ELSE CHOOSE res \in {IF t.err # "nil" \/ t.panic THEN SkipResult(Zero64, t.err, t.panic) ELSE skipWireType(dAtA, depth, t, wireTypeOf(t.val)) : t \in {ReadVarint(dAtA, iNdEx, 64)}} : TRUE

\* a skipper that never reports more than the bytes it was given
skipCanonicalClamped(dAtA) ==
    LET k == skipLoop(dAtA, 0, 0)
    IN IF k.err = "nil" /\ GtNat(k.n, Len(dAtA)) THEN [k EXCEPT !.n = WordOfNat(Len(dAtA), 64)] ELSE k

skipCanonical(dAtA0) == CHOOSE out \in {skipLoop(dAtA, 0, 0) : dAtA \in {dAtA0}} : TRUE

\* default: iNdEx = preIndex; skippy, err := skipCanonical(dAtA[iNdEx:]) (its result is k);
\* if err != nil {return err}; if (skippy < 0) || (iNdEx+skippy) < 0 {ErrInvalidLength};
\* if (iNdEx + skippy) > l {EOF}; iNdEx += skippy
SkipUnknown(dAtA, s, preIndex) ==
    CHOOSE res \in
      {IF k.panic THEN [s EXCEPT !.panic = TRUE]
       ELSE IF k.err # "nil" THEN [s EXCEPT !.err = k.err, !.iNdEx = preIndex]
       ELSE IF IsNeg(k.n) THEN [s EXCEPT !.err = ErrInvalidLengthCanonical, !.iNdEx = preIndex]
       ELSE CHOOSE res2 \in
              {IF IsNeg(to) THEN [s EXCEPT !.err = ErrInvalidLengthCanonical, !.iNdEx = preIndex]
               ELSE IF GtNat(to, Len(dAtA)) THEN [s EXCEPT !.err = ErrUnexpectedEOF, !.iNdEx = preIndex]
               ELSE [s EXCEPT !.iNdEx = NatOf(to)]
               : to \in {Add(WordOfNat(preIndex, 64), k.n)}} : TRUE
       : k \in {skipCanonical(Slice(dAtA, preIndex, Len(dAtA)))}} : TRUE

(***************************************************************************)
(* skipCanonical one loop iteration at a time.  A skipper state is         *)
(* [iNdEx, depth, n, err, panic, done]: the locals iNdEx and depth between *)
(* iterations; done is set when the call has returned (n, err).            *)
(***************************************************************************)
\* return n, err
skipReturn(s, n, err) == [s EXCEPT !.n = n, !.err = err, !.done = TRUE]

\* an end of iteration that goes round the loop whatever the depth
skipIterEndNoReturn(s, iNdEx, depth) == [s EXCEPT !.iNdEx = iNdEx, !.depth = depth]

\* the end of the switch: if iNdEx < 0 {ErrInvalidLength}; if depth == 0 {return iNdEx, nil}
skipIterEnd(s, iNdEx, depth) == IF depth = 0 THEN skipReturn([s EXCEPT !.iNdEx = iNdEx, !.depth = depth], WordOfNat(iNdEx, 64), "nil") ELSE [s EXCEPT !.iNdEx = iNdEx, !.depth = depth]

\* case 2, for the result len of the varint loop into length: if length < 0
\* {ErrInvalidLength}; iNdEx += length (the sum); if iNdEx < 0 {ErrInvalidLength};
\* if depth == 0 {return iNdEx, nil}; an index beyond every slice ends the loop
skipIterLength(s, len0) ==
    CHOOSE out \in
      {IF len.panic THEN [s EXCEPT !.panic = TRUE, !.done = TRUE]
       ELSE IF len.err # "nil" THEN skipReturn(s, Zero64, len.err)
       ELSE IF IsNeg(len.val) THEN skipReturn(s, Zero64, ErrInvalidLengthCanonical)
       ELSE CHOOSE res \in
              {IF IsNeg(sum) THEN skipReturn(s, Zero64, ErrInvalidLengthCanonical)
               ELSE IF s.depth = 0 THEN skipReturn(s, sum, "nil")
               ELSE IF ~IsSmall(sum) THEN skipReturn(s, Zero64, ErrUnexpectedEOF)
               ELSE skipIterEnd(s, NatOf(sum), s.depth)
               : sum \in {Add(WordOfNat(len.iNdEx, 64), len.val)}} : TRUE
       : len \in {len0}} : TRUE

\* case 0, for the result v of its varint loop
skipIterVarint(s, v0) ==
    CHOOSE out \in
      {IF v.panic THEN [s EXCEPT !.panic = TRUE, !.done = TRUE]
       ELSE IF v.err # "nil" THEN skipReturn(s, Zero64, v.err)
       ELSE skipIterEnd(s, v.iNdEx, s.depth)
       : v \in {v0}} : TRUE

\* an end-group case that lowers the depth without looking at it
skipIterEndGroupUnchecked(s, t) == skipIterEnd(s, t.iNdEx, s.depth - 1)

\* case 4: if depth == 0 {return 0, ErrUnexpectedEndOfGroupCanonical}; depth--
skipIterEndGroup(s, t) == IF s.depth = 0 THEN skipReturn(s, Zero64, ErrUnexpectedEndOfGroupCanonical) ELSE skipIterEnd(s, t.iNdEx, s.depth - 1)

\* switch wireType, for the tag reader's result t
skipIterCase(dAtA, s, t, wireType) ==
    CASE wireType = 0 -> skipIterVarint(s, SkipVarint(dAtA, t.iNdEx, 0))
      [] wireType = 1 -> skipIterEnd(s, t.iNdEx + 8, s.depth)
      [] wireType = 2 -> skipIterLength(s, ReadVarint(dAtA, t.iNdEx, 64))
      [] wireType = 3 -> skipIterEnd(s, t.iNdEx, s.depth + 1)
      [] wireType = 4 -> skipIterEndGroup(s, t)
      [] wireType = 5 -> skipIterEnd(s, t.iNdEx + 4, s.depth)
      [] OTHER -> skipReturn(s, Zero64, ErrIllegalWireType)

\* one pass of for iNdEx < l {...}, or the return 0, io.ErrUnexpectedEOF after it
skipIter(dAtA, s) ==
    IF s.iNdEx >= Len(dAtA) THEN skipReturn(s, Zero64, ErrUnexpectedEOF)
    ELSE CHOOSE res \in
           {IF t.panic THEN [s EXCEPT !.panic = TRUE, !.done = TRUE]
            ELSE IF t.err # "nil" THEN skipReturn(s, Zero64, t.err)
            ELSE skipIterCase(dAtA, s, t, wireTypeOf(t.val))
            : t \in {ReadVarint(dAtA, s.iNdEx, 64)}} : TRUE

(***************************************************************************)
(* Unmarshal.  Each method loops while iNdEx < l: it reads the tag varint, *)
(* rejects an end-group wire type and a field number <= 0, and switches on *)
(* the field number.  XStep is one iteration of X's loop, XLoop the loop.  *)
(* The receiver is updated in place, so a failed call leaves the fields    *)
(* decoded so far (and a zeroed or partly read scalar) in the message.     *)
(***************************************************************************)
DecodeStart(m) == [m |-> m, iNdEx |-> 0, err |-> "nil", panic |-> FALSE]

Fail(s, r, e) == [s EXCEPT !.iNdEx = r.iNdEx, !.err = e]

\* a reader's outcome carried into the decoder state
After(s, r) == [s EXCEPT !.iNdEx = r.iNdEx, !.err = r.err, !.panic = r.panic]

\* if iNdEx > l {return io.ErrUnexpectedEOF}; return nil
DecodeEnd(dAtA, s0) == CHOOSE out \in {IF s.err = "nil" /\ ~s.panic /\ s.iNdEx > Len(dAtA) THEN [s EXCEPT !.err = ErrUnexpectedEOF] ELSE s : s \in {s0}} : TRUE

\* the bytes in reverse order
Reverse(bs) == <<>> \o [j \in 1..Len(bs) |-> bs[Len(bs) + 1 - j]]

\* a fixed64 reader that takes the eight bytes as big-endian
ReadFixed64BigEndian(dAtA, iNdEx) ==
    IF iNdEx + 8 > Len(dAtA) THEN [val |-> Zero64, iNdEx |-> iNdEx, err |-> ErrUnexpectedEOF, panic |-> FALSE]
    ELSE [val |-> WordOfBytes(Reverse(Slice(dAtA, iNdEx, iNdEx + 8))), iNdEx |-> iNdEx + 8, err |-> "nil", panic |-> FALSE]

\* m.F = 0; if (iNdEx + 8) > l {EOF}; m.F = int64(LittleEndian.Uint64(dAtA[iNdEx:])); iNdEx += 8
ReadFixed64(dAtA, iNdEx) ==
    IF iNdEx + 8 > Len(dAtA) THEN [val |-> Zero64, iNdEx |-> iNdEx, err |-> ErrUnexpectedEOF, panic |-> FALSE]
    ELSE [val |-> WordOfBytes(Slice(dAtA, iNdEx, iNdEx + 8)), iNdEx |-> iNdEx + 8, err |-> "nil", panic |-> FALSE]

\* the varint loop (or the fixed64 read) into m.F, for the reader's result v
SetScalar(s, v0, f) == CHOOSE out \in {[After(s, v) EXCEPT !.m[f] = v.val] : v \in {v0}} : TRUE

\* m.F = append(m.F[:0], dAtA[iNdEx:postIndex]...); iNdEx = postIndex, for the length reader's result n
SetBytes(dAtA, s, n0, f) == CHOOSE out \in {IF n.err # "nil" \/ n.panic THEN After(s, n) ELSE [s EXCEPT !.m[f] = Slice(dAtA, n.iNdEx, n.val), !.iNdEx = n.val] : n \in {n0}} : TRUE

\* if err := nested.Unmarshal(dAtA[iNdEx:postIndex]); err != nil {return err}; iNdEx = postIndex
\* inner is the nested call's result, n the length reader's
Nested(s, n, inner) == IF inner.err # "nil" \/ inner.panic THEN [s EXCEPT !.iNdEx = n.iNdEx, !.err = inner.err, !.panic = inner.panic] ELSE [s EXCEPT !.iNdEx = n.val]

\* a nested value field m.F, decoded in place
SetNested(s, n0, inner0, f) == CHOOSE out \in {IF n.err # "nil" \/ n.panic THEN After(s, n) ELSE CHOOSE res \in {[Nested(s, n, inner) EXCEPT !.m[f] = inner.m] : inner \in {inner0}} : TRUE : n \in {n0}} : TRUE

\* a nested pointer field m.F, allocated before it is decoded
SetNestedPtr(s, n0, inner0, f) == CHOOSE out \in {IF n.err # "nil" \/ n.panic THEN After(s, n) ELSE CHOOSE res \in {[Nested(s, n, inner) EXCEPT !.m[f] = <<inner.m>>] : inner \in {inner0}} : TRUE : n \in {n0}} : TRUE

\* ---- Timestamp (protobuf runtime): Timestamp.Unmarshal, then the range check
TimestampField(dAtA, s, t, fieldNum, wireType) ==
    IF wireType = 4 THEN Fail(s, t, ErrEndGroupNonGroup)
    ELSE IF fieldNum = 0 THEN Fail(s, t, ErrIllegalTag)
    ELSE CASE fieldNum = 1 -> IF wireType # 0 THEN Fail(s, t, ErrWrongWireType) ELSE SetScalar(s, ReadVarint(dAtA, t.iNdEx, 64), "Seconds")
           [] fieldNum = 2 -> IF wireType # 0 THEN Fail(s, t, ErrWrongWireType) ELSE SetScalar(s, ReadVarint(dAtA, t.iNdEx, 32), "Nanos")
           [] OTHER -> SkipUnknown(dAtA, s, s.iNdEx)

\* preIndex := iNdEx; the varint loop into wire (its result is t);
\* fieldNum := int32(wire >> 3); wireType := int(wire & 0x7)
TimestampStep(dAtA, s) == CHOOSE r \in {IF t.err # "nil" \/ t.panic THEN After(s, t) ELSE TimestampField(dAtA, s, t, fieldNumOf(t.val), wireTypeOf(t.val)) : t \in {ReadVarint(dAtA, s.iNdEx, 64)}} : TRUE

RECURSIVE TimestampLoop(_, _)
TimestampLoop(dAtA, st) == CHOOSE r \in {IF s.err # "nil" \/ s.panic \/ s.iNdEx >= Len(dAtA) THEN s ELSE TimestampLoop(dAtA, TimestampStep(dAtA, s)) : s \in {st}} : TRUE

Timestamp_Unmarshal(m0, dAtA0) == CHOOSE out \in {DecodeEnd(dAtA, TimestampLoop(dAtA, DecodeStart(m))) : m \in {m0}, dAtA \in {dAtA0}} : TRUE

validateNanos(t) == IF IsNeg(t.Nanos) \/ ~LtSigned(t.Nanos, WordOfInt(1000000000, 32)) THEN "ErrTimestampNanos" ELSE "nil"

\* tt, err := TimestampFromProto(ts); if err != nil {return err}; *t = tt,
\* for the result r of ts.Unmarshal
TimestampFromProto(t, r0) ==
    CHOOSE out \in
      {IF r.err # "nil" \/ r.panic THEN [r EXCEPT !.m = t]
       ELSE IF validateTimestamp(r.m) # "nil" THEN [r EXCEPT !.m = t, !.err = validateTimestamp(r.m)]
       ELSE IF validateNanos(r.m) # "nil" THEN [r EXCEPT !.m = t, !.err = validateNanos(r.m)]
       ELSE r
       : r \in {r0}} : TRUE

\* ts := &Timestamp{}; ts.Unmarshal(data); tt, err := TimestampFromProto(ts); *t = tt
StdTimeUnmarshal(t, dAtA) == TimestampFromProto(t, Timestamp_Unmarshal([Seconds |-> Zero64, Nanos |-> Zero32], dAtA))

\* StdTimeUnmarshal(&m.Timestamp, dAtA[iNdEx:postIndex])
DecodeTimestamp(dAtA, s, n) == SetNested(s, n, StdTimeUnmarshal(s.m.Timestamp, Slice(dAtA, n.iNdEx, n.val)), "Timestamp")

\* ---- VoteExtensionToSign
VoteExtensionToSignField(dAtA, s, t, fieldNum, wireType) ==
    IF wireType = 4 THEN Fail(s, t, ErrEndGroupNonGroup)
    ELSE IF fieldNum = 0 THEN Fail(s, t, ErrIllegalTag)
    ELSE CASE fieldNum = 1 -> IF wireType # 2 THEN Fail(s, t, ErrWrongWireType) ELSE SetBytes(dAtA, s, ReadLength(dAtA, t.iNdEx), "AppDataToSign")
           [] OTHER -> SkipUnknown(dAtA, s, s.iNdEx)

\* preIndex := iNdEx; the varint loop into wire (its result is t);
\* fieldNum := int32(wire >> 3); wireType := int(wire & 0x7)
VoteExtensionToSignStep(dAtA, s) == CHOOSE r \in {IF t.err # "nil" \/ t.panic THEN After(s, t) ELSE VoteExtensionToSignField(dAtA, s, t, fieldNumOf(t.val), wireTypeOf(t.val)) : t \in {ReadVarint(dAtA, s.iNdEx, 64)}} : TRUE

RECURSIVE VoteExtensionToSignLoop(_, _)
VoteExtensionToSignLoop(dAtA, st) == CHOOSE r \in {IF s.err # "nil" \/ s.panic \/ s.iNdEx >= Len(dAtA) THEN s ELSE VoteExtensionToSignLoop(dAtA, VoteExtensionToSignStep(dAtA, s)) : s \in {st}} : TRUE

VoteExtensionToSign_Unmarshal(m0, dAtA0) == CHOOSE out \in {DecodeEnd(dAtA, VoteExtensionToSignLoop(dAtA, DecodeStart(m))) : m \in {m0}, dAtA \in {dAtA0}} : TRUE

\* if m.VoteExtension == nil {m.VoteExtension = &VoteExtensionToSign{}}
VoteExtensionOrNew(opt) == IF opt = <<>> THEN ZeroVoteExtension ELSE opt[1]

\* m.VoteExtension.Unmarshal(dAtA[iNdEx:postIndex])
DecodeVoteExtension(dAtA, s, n) == SetNestedPtr(s, n, VoteExtensionToSign_Unmarshal(VoteExtensionOrNew(s.m.VoteExtension), Slice(dAtA, n.iNdEx, n.val)), "VoteExtension")

\* ---- CanonicalPartSetHeader
CanonicalPartSetHeaderField(dAtA, s, t, fieldNum, wireType) ==
    IF wireType = 4 THEN Fail(s, t, ErrEndGroupNonGroup)
    ELSE IF fieldNum = 0 THEN Fail(s, t, ErrIllegalTag)
    ELSE CASE fieldNum = 1 -> IF wireType # 0 THEN Fail(s, t, ErrWrongWireType) ELSE SetScalar(s, ReadVarint(dAtA, t.iNdEx, 32), "Total")
           [] fieldNum = 2 -> IF wireType # 2 THEN Fail(s, t, ErrWrongWireType) ELSE SetBytes(dAtA, s, ReadLength(dAtA, t.iNdEx), "Hash")
           [] OTHER -> SkipUnknown(dAtA, s, s.iNdEx)

\* preIndex := iNdEx; the varint loop into wire (its result is t);
\* fieldNum := int32(wire >> 3); wireType := int(wire & 0x7)
CanonicalPartSetHeaderStep(dAtA, s) == CHOOSE r \in {IF t.err # "nil" \/ t.panic THEN After(s, t) ELSE CanonicalPartSetHeaderField(dAtA, s, t, fieldNumOf(t.val), wireTypeOf(t.val)) : t \in {ReadVarint(dAtA, s.iNdEx, 64)}} : TRUE

RECURSIVE CanonicalPartSetHeaderLoop(_, _)
CanonicalPartSetHeaderLoop(dAtA, st) == CHOOSE r \in {IF s.err # "nil" \/ s.panic \/ s.iNdEx >= Len(dAtA) THEN s ELSE CanonicalPartSetHeaderLoop(dAtA, CanonicalPartSetHeaderStep(dAtA, s)) : s \in {st}} : TRUE

CanonicalPartSetHeader_Unmarshal(m0, dAtA0) == CHOOSE out \in {DecodeEnd(dAtA, CanonicalPartSetHeaderLoop(dAtA, DecodeStart(m))) : m \in {m0}, dAtA \in {dAtA0}} : TRUE

\* m.PartSetHeader.Unmarshal(dAtA[iNdEx:postIndex])
DecodePartSetHeader(dAtA, s, n) == SetNested(s, n, CanonicalPartSetHeader_Unmarshal(s.m.PartSetHeader, Slice(dAtA, n.iNdEx, n.val)), "PartSetHeader")

\* ---- CanonicalBlockID
CanonicalBlockIDField(dAtA, s, t, fieldNum, wireType) ==
    IF wireType = 4 THEN Fail(s, t, ErrEndGroupNonGroup)
    ELSE IF fieldNum = 0 THEN Fail(s, t, ErrIllegalTag)
    ELSE CASE fieldNum = 1 -> IF wireType # 2 THEN Fail(s, t, ErrWrongWireType) ELSE SetBytes(dAtA, s, ReadLength(dAtA, t.iNdEx), "Hash")
           [] fieldNum = 2 -> IF wireType # 2 THEN Fail(s, t, ErrWrongWireType) ELSE DecodePartSetHeader(dAtA, s, ReadLength(dAtA, t.iNdEx))
           [] OTHER -> SkipUnknown(dAtA, s, s.iNdEx)

\* preIndex := iNdEx; the varint loop into wire (its result is t);
\* fieldNum := int32(wire >> 3); wireType := int(wire & 0x7)
CanonicalBlockIDStep(dAtA, s) == CHOOSE r \in {IF t.err # "nil" \/ t.panic THEN After(s, t) ELSE CanonicalBlockIDField(dAtA, s, t, fieldNumOf(t.val), wireTypeOf(t.val)) : t \in {ReadVarint(dAtA, s.iNdEx, 64)}} : TRUE

RECURSIVE CanonicalBlockIDLoop(_, _)
CanonicalBlockIDLoop(dAtA, st) == CHOOSE r \in {IF s.err # "nil" \/ s.panic \/ s.iNdEx >= Len(dAtA) THEN s ELSE CanonicalBlockIDLoop(dAtA, CanonicalBlockIDStep(dAtA, s)) : s \in {st}} : TRUE

CanonicalBlockID_Unmarshal(m0, dAtA0) == CHOOSE out \in {DecodeEnd(dAtA, CanonicalBlockIDLoop(dAtA, DecodeStart(m))) : m \in {m0}, dAtA \in {dAtA0}} : TRUE

\* if m.BlockID == nil {m.BlockID = &CanonicalBlockID{}}
BlockIDOrNew(opt) == IF opt = <<>> THEN ZeroBlockID ELSE opt[1]

\* m.BlockID.Unmarshal(dAtA[iNdEx:postIndex])
DecodeBlockID(dAtA, s, n) == SetNestedPtr(s, n, CanonicalBlockID_Unmarshal(BlockIDOrNew(s.m.BlockID), Slice(dAtA, n.iNdEx, n.val)), "BlockID")

\* ---- CanonicalProposal
CanonicalProposalField(dAtA, s, t, fieldNum, wireType) ==
    IF wireType = 4 THEN Fail(s, t, ErrEndGroupNonGroup)
    ELSE IF fieldNum = 0 THEN Fail(s, t, ErrIllegalTag)
    ELSE CASE fieldNum = 1 -> IF wireType # 0 THEN Fail(s, t, ErrWrongWireType) ELSE SetScalar(s, ReadVarint(dAtA, t.iNdEx, 32), "Type")
           [] fieldNum = 2 -> IF wireType # 1 THEN Fail(s, t, ErrWrongWireType) ELSE SetScalar(s, ReadFixed64(dAtA, t.iNdEx), "Height")
           [] fieldNum = 3 -> IF wireType # 1 THEN Fail(s, t, ErrWrongWireType) ELSE SetScalar(s, ReadFixed64(dAtA, t.iNdEx), "Round")
           [] fieldNum = 4 -> IF wireType # 0 THEN Fail(s, t, ErrWrongWireType) ELSE SetScalar(s, ReadVarint(dAtA, t.iNdEx, 64), "POLRound")
           [] fieldNum = 5 -> IF wireType # 2 THEN Fail(s, t, ErrWrongWireType) ELSE DecodeBlockID(dAtA, s, ReadLength(dAtA, t.iNdEx))
           [] fieldNum = 6 -> IF wireType # 2 THEN Fail(s, t, ErrWrongWireType) ELSE DecodeTimestamp(dAtA, s, ReadLength(dAtA, t.iNdEx))
           [] fieldNum = 7 -> IF wireType # 2 THEN Fail(s, t, ErrWrongWireType) ELSE SetBytes(dAtA, s, ReadLength(dAtA, t.iNdEx), "ChainID")
           [] OTHER -> SkipUnknown(dAtA, s, s.iNdEx)

\* preIndex := iNdEx; the varint loop into wire (its result is t);
\* fieldNum := int32(wire >> 3); wireType := int(wire & 0x7)
CanonicalProposalStep(dAtA, s) == CHOOSE r \in {IF t.err # "nil" \/ t.panic THEN After(s, t) ELSE CanonicalProposalField(dAtA, s, t, fieldNumOf(t.val), wireTypeOf(t.val)) : t \in {ReadVarint(dAtA, s.iNdEx, 64)}} : TRUE

RECURSIVE CanonicalProposalLoop(_, _)
CanonicalProposalLoop(dAtA, st) == CHOOSE r \in {IF s.err # "nil" \/ s.panic \/ s.iNdEx >= Len(dAtA) THEN s ELSE CanonicalProposalLoop(dAtA, CanonicalProposalStep(dAtA, s)) : s \in {st}} : TRUE

CanonicalProposal_Unmarshal(m0, dAtA0) == CHOOSE out \in {DecodeEnd(dAtA, CanonicalProposalLoop(dAtA, DecodeStart(m))) : m \in {m0}, dAtA \in {dAtA0}} : TRUE

\* ---- CanonicalVote
CanonicalVoteField(dAtA, s, t, fieldNum, wireType) ==
    IF wireType = 4 THEN Fail(s, t, ErrEndGroupNonGroup)
    ELSE IF fieldNum = 0 THEN Fail(s, t, ErrIllegalTag)
    ELSE CASE fieldNum = 1 -> IF wireType # 0 THEN Fail(s, t, ErrWrongWireType) ELSE SetScalar(s, ReadVarint(dAtA, t.iNdEx, 32), "Type")
           [] fieldNum = 2 -> IF wireType # 1 THEN Fail(s, t, ErrWrongWireType) ELSE SetScalar(s, ReadFixed64(dAtA, t.iNdEx), "Height")
           [] fieldNum = 3 -> IF wireType # 1 THEN Fail(s, t, ErrWrongWireType) ELSE SetScalar(s, ReadFixed64(dAtA, t.iNdEx), "Round")
           [] fieldNum = 4 -> IF wireType # 2 THEN Fail(s, t, ErrWrongWireType) ELSE DecodeBlockID(dAtA, s, ReadLength(dAtA, t.iNdEx))
           [] fieldNum = 5 -> IF wireType # 2 THEN Fail(s, t, ErrWrongWireType) ELSE DecodeTimestamp(dAtA, s, ReadLength(dAtA, t.iNdEx))
           [] fieldNum = 6 -> IF wireType # 2 THEN Fail(s, t, ErrWrongWireType) ELSE SetBytes(dAtA, s, ReadLength(dAtA, t.iNdEx), "ChainID")
           [] fieldNum = 7 -> IF wireType # 2 THEN Fail(s, t, ErrWrongWireType) ELSE DecodeVoteExtension(dAtA, s, ReadLength(dAtA, t.iNdEx))
           [] OTHER -> SkipUnknown(dAtA, s, s.iNdEx)

\* preIndex := iNdEx; the varint loop into wire (its result is t);
\* fieldNum := int32(wire >> 3); wireType := int(wire & 0x7)
CanonicalVoteStep(dAtA, s) == CHOOSE r \in {IF t.err # "nil" \/ t.panic THEN After(s, t) ELSE CanonicalVoteField(dAtA, s, t, fieldNumOf(t.val), wireTypeOf(t.val)) : t \in {ReadVarint(dAtA, s.iNdEx, 64)}} : TRUE

RECURSIVE CanonicalVoteLoop(_, _)
CanonicalVoteLoop(dAtA, st) == CHOOSE r \in {IF s.err # "nil" \/ s.panic \/ s.iNdEx >= Len(dAtA) THEN s ELSE CanonicalVoteLoop(dAtA, CanonicalVoteStep(dAtA, s)) : s \in {st}} : TRUE

CanonicalVote_Unmarshal(m0, dAtA0) == CHOOSE out \in {DecodeEnd(dAtA, CanonicalVoteLoop(dAtA, DecodeStart(m))) : m \in {m0}, dAtA \in {dAtA0}} : TRUE

(***************************************************************************)
(* Inputs.  Byte strings are drawn over a two-letter alphabet (a byte that *)
(* reads as a tag, and a byte with the high bit set) up to MaxLen bytes;   *)
(* integers from samples around zero, the varint size steps and the ends   *)
(* of the 64-bit range.                                                    *)
(***************************************************************************)
MaxLen == 2

ByteAlphabet == {18, 255}

ByteStrings == UNION {[1..n -> ByteAlphabet] : n \in 0..MaxLen}

\* the longest sample string
Filled == <<>> \o [j \in 1..MaxLen |-> 116]

MinInt64 == <<>> \o [k \in 1..64 |-> IF k = 64 THEN 1 ELSE 0]

MaxInt64 == Not(MinInt64)

I64(n) == WordOfInt(n, 64)

I32(n) == WordOfInt(n, 32)

TotalSamples == {Zero32, I32(1), I32(300), I32(-1)}

PartSetHeaderSamples == [Total : TotalSamples, Hash : ByteStrings]

BlockIDSamples == [Hash : ByteStrings, PartSetHeader : {ZeroPartSetHeader, [Total |-> I32(1), Hash |-> Filled], [Total |-> I32(-1), Hash |-> <<>>]}]

\* nil, the empty block id, and a full one
OptBlockIDSamples == {<<>>, <<ZeroBlockID>>, <<[Hash |-> Filled, PartSetHeader |-> [Total |-> I32(1), Hash |-> Filled]]>>}

\* time.Time{}, the Unix epoch, and 2024-01-01T00:00:00.999999999Z
TimeSamples == {ZeroTime, [Seconds |-> Zero64, Nanos |-> Zero32], [Seconds |-> I64(1704067200), Nanos |-> I32(999999999)]}

OptVoteExtensionSamples == {<<>>, <<ZeroVoteExtension>>, <<[AppDataToSign |-> Filled]>>}

ProposalSamples == [Type : {Zero32, I32(32)}, Height : {Zero64, I64(1), I64(-1)}, Round : {Zero64, I64(2)}, POLRound : {Zero64, I64(1), I64(-1), I64(-2), MaxInt64}, BlockID : OptBlockIDSamples, Timestamp : TimeSamples, ChainID : {<<>>, Filled}]

VoteSamples == [Type : {Zero32, I32(2), I32(-1)}, Height : {Zero64, I64(12345), MinInt64}, Round : {Zero64, I64(2), I64(3), I64(-1)}, BlockID : OptBlockIDSamples, Timestamp : TimeSamples, ChainID : {<<>>, Filled}, VoteExtension : OptVoteExtensionSamples]

Kinds == {"PartSetHeader", "BlockID", "Proposal", "Vote"}

SamplesOf(k) == CASE k = "PartSetHeader" -> PartSetHeaderSamples [] k = "BlockID" -> BlockIDSamples [] k = "Proposal" -> ProposalSamples [] k = "Vote" -> VoteSamples

\* m.Marshal() for a message m of kind k
Marshal(k, m) == CASE k = "PartSetHeader" -> CanonicalPartSetHeader_Marshal(m) [] k = "BlockID" -> CanonicalBlockID_Marshal(m) [] k = "Proposal" -> CanonicalProposal_Marshal(m) [] k = "Vote" -> CanonicalVote_Marshal(m)

\* m.Size() for a message m of kind k
Size(k, m) == CASE k = "PartSetHeader" -> CanonicalPartSetHeader_Size(m) [] k = "BlockID" -> CanonicalBlockID_Size(m) [] k = "Proposal" -> CanonicalProposal_Size(m) [] k = "Vote" -> CanonicalVote_Size(m)

\* m.MarshalToSizedBuffer(dAtA[:size]) for a message m of kind k
MarshalToSizedBuffer(k, m, st) == CASE k = "PartSetHeader" -> CanonicalPartSetHeader_MarshalToSizedBuffer(m, st) [] k = "BlockID" -> CanonicalBlockID_MarshalToSizedBuffer(m, st) [] k = "Proposal" -> CanonicalProposal_MarshalToSizedBuffer(m, st) [] k = "Vote" -> CanonicalVote_MarshalToSizedBuffer(m, st)

\* the zero message of kind k
ZeroOf(k) == CASE k = "PartSetHeader" -> ZeroPartSetHeader [] k = "BlockID" -> ZeroBlockID [] k = "Proposal" -> ZeroProposal [] k = "Vote" -> ZeroVote

\* m.Unmarshal(dAtA) for a message m of kind k
Unmarshal(k, m, dAtA) == CASE k = "PartSetHeader" -> CanonicalPartSetHeader_Unmarshal(m, dAtA) [] k = "BlockID" -> CanonicalBlockID_Unmarshal(m, dAtA) [] k = "Proposal" -> CanonicalProposal_Unmarshal(m, dAtA) [] k = "Vote" -> CanonicalVote_Unmarshal(m, dAtA)

(***************************************************************************)
(* Unknown fields, as newer software would add them.  A field is written   *)
(* as its tag varint followed by its value.                                *)
(***************************************************************************)
\* the varint of (fieldNum << 3) | wireType, for fieldNum given as a word of
\* at most 61 bits
TagBytes(fieldNum, wireType) == VarintLoop(<<>> \o [k \in 1..64 |-> IF k <= 3 THEN BitOf(wireType, k - 1) ELSE IF k - 3 <= Len(fieldNum) THEN fieldNum[k - 3] ELSE 0])

F29(n) == WordOfNat(n, 29)

\* 2^29 - 1, the largest field number
MaxFieldNum == Not(F29(0))

\* well-formed fields with unrecognised numbers: a varint of 10 bytes, a
\* fixed64, length-delimited fields (empty, and with content that reads as
\* known tags), a fixed32 under the largest field number, and a group holding
\* a varint, a group and a length-delimited field
UnknownFields ==
    { TagBytes(F29(99), 0) \o VarintLoop(I64(-1)),
      TagBytes(F29(99), 1) \o <<1, 2, 3, 4, 5, 6, 7, 8>>,
      TagBytes(F29(8), 2) \o <<0>>,
      TagBytes(F29(16), 2) \o <<3, 8, 17, 255>>,
      TagBytes(MaxFieldNum, 5) \o <<8, 17, 25, 255>>,
      TagBytes(F29(9), 3) \o TagBytes(F29(10), 0) \o <<5>> \o TagBytes(F29(10), 3) \o TagBytes(F29(10), 4) \o TagBytes(F29(11), 2) \o <<1, 4>> \o TagBytes(F29(9), 4) }

\* a few messages of each kind: the zero message, a full one, and ones with
\* some fields set
FullBlockID == [Hash |-> Filled, PartSetHeader |-> [Total |-> I32(1), Hash |-> Filled]]

FewSamplesOf(k) ==
    CASE k = "PartSetHeader" -> {ZeroPartSetHeader, [Total |-> I32(300), Hash |-> Filled]}
      [] k = "BlockID" -> {ZeroBlockID, FullBlockID}
      [] k = "Proposal" -> {ZeroProposal,
                            [ZeroProposal EXCEPT !.ChainID = Filled, !.POLRound = I64(-1)],
                            [Type |-> I32(32), Height |-> I64(1), Round |-> I64(2), POLRound |-> I64(1), BlockID |-> <<FullBlockID>>, Timestamp |-> [Seconds |-> I64(1704067200), Nanos |-> I32(999999999)], ChainID |-> Filled]}
      [] k = "Vote" -> {ZeroVote,
                        [ZeroVote EXCEPT !.Round = I64(3), !.VoteExtension = <<ZeroVoteExtension>>],
                        [Type |-> I32(2), Height |-> I64(12345), Round |-> I64(2), BlockID |-> <<FullBlockID>>, Timestamp |-> [Seconds |-> I64(1704067200), Nanos |-> I32(999999999)], ChainID |-> Filled, VoteExtension |-> <<[AppDataToSign |-> Filled]>>]}

\* the offsets at which the top-level fields of a well-formed message start,
\* and its end
RECURSIVE FieldStartsFrom(_, _)
FieldStartsFrom(bs, from) ==
    IF from >= Len(bs) THEN {Len(bs)}
    ELSE LET k == skipCanonical(Slice(bs, from, Len(bs)))
         IN IF k.err # "nil" \/ ~IsSmall(k.n) \/ IsZero(k.n) THEN {from}
            ELSE {from} \cup FieldStartsFrom(bs, from + NatOf(k.n))

FieldStarts(bs) == FieldStartsFrom(bs, 0)

\* declared lengths of a truncated field: just too long, long, huge, next to
\* the largest, the largest, and negative as an int64
Pow62 == <<>> \o [k \in 1..64 |-> IF k = 63 THEN 1 ELSE 0]

\* the largest length that the 11 bytes of a two-byte tag and a nine-byte
\* length can precede without leaving the int64 range
NearMaxInt64 == Not(<<>> \o [k \in 1..64 |-> IF k \in {2, 4, 64} THEN 1 ELSE 0])

DeclaredLengths(remaining) == {WordOfNat(remaining + 1, 64), I64(300), Pow62, NearMaxInt64, MaxInt64, MinInt64, I64(-1)}

(***************************************************************************)
(* The codec as a state machine.  A message x of some kind is built; x is  *)
(* marshaled; unknown fields may be inserted between the fields of the     *)
(* bytes, or an unknown length-delimited field whose declared length       *)
(* exceeds what follows it; the bytes are unmarshaled into a fresh zero    *)
(* message.                                                                *)
(*   kind, msg   the message x and its type                                *)
(*   pc          "built", "marshaled", "unmarshaled"                       *)
(*   enc         the result of x.Marshal()                                 *)
(*   wire        the bytes given to Unmarshal                              *)
(*   ins         the number of unknown fields inserted into wire           *)
(*   trunc       <<>>, or <<f>>: a truncated field was put into wire at    *)
(*               f.at, its payload starts at f.payload and it declares     *)
(*               the length f.length                                       *)
(*   dec         the result of Unmarshal                                   *)
(* Concurrent callers of Marshal on the shared message msg:                *)
(*   tpc[t]      "idle", "sized", "filled", "done"                         *)
(*   heap[a]     the bytes of the buffer at address a                      *)
(*   tloc[t]     the locals of thread t's call: write index, error, panic  *)
(*   tout[t]     the result thread t returned                              *)
(* A call of skipCanonical on wire, one iteration of its loop at a time:   *)
(*   skip        [iNdEx, depth, n, err, panic, done]: the read index and   *)
(*               the group depth between iterations, and the returned      *)
(*               pair (n, err) once the call is done                       *)
(* The inspector's RPC server configuration (inspect/rpc):                 *)
(*   rpcConfig      the config.RPCConfig r given to serverRPCConfig        *)
(*   defaultConfig  the server.Config that server.DefaultConfig() returns  *)
(*   cfg            <<>>, or <<c>>: serverRPCConfig has returned c         *)
(* A call of Server.ListenAndServe or ListenAndServeTLS:                   *)
(*   ctx            "active" or "done": the context given to the call      *)
(*   listener       "nil", "open" or "closed"                              *)
(*   watcher        the goroutine the call starts: "none", "blocked" (at   *)
(*                  <-ctx.Done()), "woken" (before listener.Close()) or    *)
(*                  "exited"                                               *)
(*   call           [pc, tls, err]: the calling goroutine's position       *)
(*                  ("idle", "listened", "spawned", "serving", "returned"),*)
(*                  which of the two methods it is, and the returned error *)
(* The handler that Handler builds, and its websocket clients:             *)
(*   eventBus       the local variable eventBus of Handler: "nil" or "set" *)
(*   wm             <<>>, or <<m>>: the websocket manager, m.onDisconnect  *)
(*                  whether the disconnect callback is registered          *)
(*   conns          per remote address "none", "open", "closed" (the       *)
(*                  callback completed) or "panicked"                      *)
(*   logged         the addresses of the errors the callback has logged    *)
(***************************************************************************)
VARIABLES kind, msg, pc, enc, wire, ins, trunc, dec, tpc, heap, tloc, tout, skip, rpcConfig, defaultConfig, cfg, ctx, listener, watcher, call, eventBus, wm, conns, logged

vars == <<kind, msg, pc, enc, wire, ins, trunc, dec, tpc, heap, tloc, tout, skip, rpcConfig, defaultConfig, cfg, ctx, listener, watcher, call, eventBus, wm, conns, logged>>

codecVars == <<pc, enc, wire, ins, trunc, dec>>

threadVars == <<tpc, heap, tloc, tout>>

serveVars == <<ctx, listener, watcher, call>>

handlerVars == <<eventBus, wm, conns, logged>>

rpcVars == <<rpcConfig, defaultConfig, cfg, serveVars, handlerVars>>

NThreads == 2

Threads == 1..NThreads

MaxUnknown == 1

NoEnc == [dAtA |-> <<>>, err |-> "nil", panic |-> FALSE, i |-> 0]

NoDec == [m |-> <<>>, iNdEx |-> 0, err |-> "nil", panic |-> FALSE]

NoSkip == [iNdEx |-> 0, depth |-> 0, n |-> Zero64, err |-> "nil", panic |-> FALSE, done |-> FALSE]

NoRPCConfig == [TimeoutBroadcastTxCommit |-> Zero64, MaxBodyBytes |-> Zero64, MaxHeaderBytes |-> 0]

NoServerConfig == [WriteTimeout |-> Zero64, MaxBodyBytes |-> Zero64, MaxHeaderBytes |-> 0]

NoCall == [pc |-> "idle", tls |-> FALSE, err |-> "nil"]

NClients == 3

\* the remote addresses of the websocket clients
RemoteAddrs == 1..NClients

InitRest ==
    /\ pc = "built"
    /\ enc = NoEnc
    /\ wire = <<>>
    /\ ins = 0
    /\ trunc = <<>>
    /\ dec = NoDec
    /\ tpc = [t \in Threads |-> "idle"]
    /\ heap = [a \in Threads |-> <<>>]
    /\ tloc = [t \in Threads |-> [i |-> 0, err |-> "nil", panic |-> FALSE]]
    /\ tout = [t \in Threads |-> NoEnc]
    /\ skip = NoSkip
    /\ rpcConfig = NoRPCConfig
    /\ defaultConfig = NoServerConfig
    /\ cfg = <<>>
    /\ ctx = "active"
    /\ listener = "nil"
    /\ watcher = "none"
    /\ call = NoCall
    /\ eventBus = "nil"
    /\ wm = <<>>
    /\ conns = [a \in RemoteAddrs |-> "none"]
    /\ logged = {}

Init ==
    /\ kind \in Kinds
    /\ msg \in SamplesOf(kind)
    /\ InitRest

\* dAtA, err := x.Marshal()
DoMarshal ==
    /\ pc = "built"
    /\ enc' = Marshal(kind, msg)
    /\ wire' = enc'.dAtA
    /\ pc' = "marshaled"
    /\ UNCHANGED <<kind, msg, ins, trunc, dec, threadVars, skip, rpcVars>>

\* y := new(T); err := y.Unmarshal(dAtA)
DoUnmarshal ==
    /\ pc = "marshaled"
    /\ enc.err = "nil" /\ ~enc.panic
    /\ dec' = Unmarshal(kind, ZeroOf(kind), wire)
    /\ pc' = "unmarshaled"
    /\ UNCHANGED <<kind, msg, enc, wire, ins, trunc, threadVars, skip, rpcVars>>

\* a field with an unrecognised number is put between two fields of the
\* bytes, before the first or after the last
InsertUnknown ==
    /\ pc = "marshaled"
    /\ enc.err = "nil" /\ ~enc.panic
    /\ trunc = <<>>
    /\ ins < MaxUnknown
    /\ \E p \in FieldStarts(wire), u \in UnknownFields :
         wire' = Slice(wire, 0, p) \o u \o Slice(wire, p, Len(wire))
    /\ ins' = ins + 1
    /\ UNCHANGED <<kind, msg, pc, enc, trunc, dec, threadVars, skip, rpcVars>>

\* a length-delimited field with an unrecognised number is put at a field
\* boundary, declaring a length that exceeds the bytes that follow it
InsertTruncated ==
    /\ pc = "marshaled"
    /\ enc.err = "nil" /\ ~enc.panic
    /\ trunc = <<>> /\ ins = 0
    /\ \E p \in FieldStarts(wire), f \in {F29(99), MaxFieldNum} :
       \E L \in DeclaredLengths(Len(wire) - p) :
         LET head == TagBytes(f, 2) \o VarintLoop(L)
         IN /\ wire' = Slice(wire, 0, p) \o head \o Slice(wire, p, Len(wire))
            /\ trunc' = <<[at |-> p, payload |-> p + Len(head), length |-> L]>>
    /\ UNCHANGED <<kind, msg, pc, enc, ins, dec, threadVars, skip, rpcVars>>

Next == DoMarshal \/ DoUnmarshal

Spec == Init /\ [][Next]_vars

\* the codec with unknown fields in the bytes, on a few messages of each kind
InitSkip ==
    /\ kind \in Kinds
    /\ msg \in FewSamplesOf(kind)
    /\ InitRest

NextSkip == DoMarshal \/ InsertUnknown \/ InsertTruncated \/ DoUnmarshal

SpecSkip == InitSkip /\ [][NextSkip]_vars

(***************************************************************************)
(* Concurrent calls of Marshal on one shared message.  Each call is three  *)
(* steps: size := m.Size(); dAtA = make([]byte, size) / n, err :=          *)
(* m.MarshalToSizedBuffer(dAtA[:size]) / return dAtA[:n], nil.             *)
(***************************************************************************)
\* an allocator that hands every call the same scratch buffer
makeShared(t) == 1

\* the address of the buffer that make([]byte, size) gives the call of
\* thread t: a buffer of its own
make(t) == t

MarshalBegin(t) ==
    /\ tpc[t] = "idle"
    /\ heap' = [heap EXCEPT ![make(t)] = MakeBuf(Size(kind, msg)).dAtA]
    /\ tloc' = [tloc EXCEPT ![t] = [i |-> Size(kind, msg), err |-> "nil", panic |-> FALSE]]
    /\ tpc' = [tpc EXCEPT ![t] = "sized"]
    /\ UNCHANGED <<kind, msg, codecVars, tout, skip, rpcVars>>

MarshalFill(t) ==
    /\ tpc[t] = "sized"
    /\ LET st == MarshalToSizedBuffer(kind, msg, [dAtA |-> heap[make(t)], i |-> tloc[t].i, panic |-> FALSE, err |-> "nil"])
       IN /\ heap' = [heap EXCEPT ![make(t)] = st.dAtA]
          /\ tloc' = [tloc EXCEPT ![t] = [i |-> st.i, err |-> st.err, panic |-> st.panic]]
    /\ tpc' = [tpc EXCEPT ![t] = "filled"]
    /\ UNCHANGED <<kind, msg, codecVars, tout, skip, rpcVars>>

MarshalReturn(t) ==
    /\ tpc[t] = "filled"
    /\ tout' = [tout EXCEPT ![t] = MarshalResult([dAtA |-> heap[make(t)], i |-> tloc[t].i, panic |-> tloc[t].panic, err |-> tloc[t].err])]
    /\ tpc' = [tpc EXCEPT ![t] = "done"]
    /\ UNCHANGED <<kind, msg, codecVars, heap, tloc, skip, rpcVars>>

NextConc == \E t \in Threads : MarshalBegin(t) \/ MarshalFill(t) \/ MarshalReturn(t)

SpecConc == InitSkip /\ [][NextConc]_vars

(***************************************************************************)
(* The varint codec on its own.  A 64-bit value v is written by            *)
(* encodeVarintCanonical into a buffer of sovCanonical(v) bytes, as every  *)
(* caller does (offset starts at the end of the room that Size counted     *)
(* for it); the bytes, or a proper prefix of them, are read by the varint  *)
(* loop of the decoders into a uint64.  Here kind is "Varint", msg is v,   *)
(* enc the buffer after the write and dec.m the value read.                *)
(***************************************************************************)
\* 1 << k
OneBit(k) == <<>> \o [j \in 1..64 |-> IF j = k + 1 THEN 1 ELSE 0]

\* (1 << k) - 1
LowOnes(k) == <<>> \o [j \in 1..64 |-> IF j <= k THEN 1 ELSE 0]

\* every power of two and every value one below a power of two: both sides
\* of each step of the encoded length, 0 and the largest uint64
VarintSamples == {OneBit(k) : k \in 0..63} \cup {LowOnes(k) : k \in 0..64}

InitVarint ==
    /\ kind = "Varint"
    /\ msg \in VarintSamples
    /\ InitRest

\* dAtA := make([]byte, sovCanonical(v)); encodeVarintCanonical(dAtA, len(dAtA), v)
EncodeVarint ==
    /\ kind = "Varint" /\ pc = "built"
    /\ enc' = encodeVarintCanonical(MakeBuf(sovCanonical(msg)), msg)
    /\ wire' = enc'.dAtA
    /\ pc' = "marshaled"
    /\ UNCHANGED <<kind, msg, ins, trunc, dec, threadVars, skip, rpcVars>>

\* the reader is given a proper prefix of the bytes
CutVarint ==
    /\ kind = "Varint" /\ pc = "marshaled"
    /\ wire = enc.dAtA
    /\ \E n \in 0..(Len(wire) - 1) : wire' = SubSeq(wire, 1, n)
    /\ UNCHANGED <<kind, msg, pc, enc, ins, trunc, dec, threadVars, skip, rpcVars>>

\* the reader's outcome as a decoder result
VarintResult(r) == [m |-> r.val, iNdEx |-> r.iNdEx, err |-> r.err, panic |-> r.panic]

\* var v uint64; the varint loop over dAtA from index 0
DecodeVarint ==
    /\ kind = "Varint" /\ pc = "marshaled"
    /\ dec' = VarintResult(ReadVarint(wire, 0, 64))
    /\ pc' = "unmarshaled"
    /\ UNCHANGED <<kind, msg, enc, wire, ins, trunc, threadVars, skip, rpcVars>>

NextVarint == EncodeVarint \/ CutVarint \/ DecodeVarint

SpecVarint == InitVarint /\ [][NextVarint]_vars

(***************************************************************************)
(* The decoders on arbitrary bytes, one loop iteration at a time.  A call  *)
(* y.Unmarshal(dAtA) on a fresh message y, or a call skipCanonical(dAtA)   *)
(* (kind "Skip"), is given bytes that no encoder need have written: every  *)
(* short string over a few telling bytes, every tag byte of the message's  *)
(* field numbers with every wire type, varints of ten and eleven bytes,    *)
(* declared lengths that are negative or too long, tags with field numbers *)
(* beyond 32 bits, and for the skipper fields of every wire type.  dec and *)
(* skip hold the locals of the call between iterations.                    *)
(***************************************************************************)
MaxRaw == 3

\* a varint tag, a length-delimited tag, a start-group and an end-group tag
\* of field 1, a byte with the continuation bit, and 1
RawAlphabet == {8, 18, 11, 12, 255, 1}

RawStrings == UNION {[1..n -> RawAlphabet] : n \in 0..MaxRaw}

\* a message of each kind with every field set
FullOf(k) ==
    CASE k = "PartSetHeader" -> [Total |-> I32(300), Hash |-> Filled]
      [] k = "BlockID" -> FullBlockID
      [] k = "Proposal" -> [Type |-> I32(32), Height |-> I64(1), Round |-> I64(2), POLRound |-> I64(1), BlockID |-> <<FullBlockID>>, Timestamp |-> [Seconds |-> I64(1704067200), Nanos |-> I32(999999999)], ChainID |-> Filled]
      [] k = "Vote" -> [Type |-> I32(2), Height |-> I64(12345), Round |-> I64(2), BlockID |-> <<FullBlockID>>, Timestamp |-> [Seconds |-> I64(1704067200), Nanos |-> I32(999999999)], ChainID |-> Filled, VoteExtension |-> <<[AppDataToSign |-> Filled]>>]

\* nothing, or the encoding of the full message, in front of the bytes of interest
PrefixesOf(k) == {<<>>, Marshal(k, FullOf(k)).dAtA}

\* the greatest field number of a message type
LastField(k) == IF k \in {"PartSetHeader", "BlockID"} THEN 2 ELSE 7

\* bytes that read as a value under every wire type: the varint 1, eight
\* fixed bytes, or one byte of content
ValueBytes == <<1, 116, 0, 0, 0, 0, 0, 0>>

\* every tag byte of the field numbers 1..LastField(k), with every wire type
TagByteInputs(k) == {pre \o <<b>> \o ValueBytes : pre \in PrefixesOf(k), b \in 8..(8 * LastField(k) + 7)}

\* ten bytes whose last carries bits 64..69
TenBytes7F == <<255, 255, 255, 255, 255, 255, 255, 255, 255, 127>>

\* ten bytes that spell 2^64
TenBytes2To64 == <<128, 128, 128, 128, 128, 128, 128, 128, 128, 2>>

\* eleven bytes
ElevenBytes == <<255, 255, 255, 255, 255, 255, 255, 255, 255, 255, 1>>

\* varints as a value or a declared length, at the end of the input or with
\* a byte after them: over-long ones, the two ends of the negative int64
\* range, 5 (more than follows) and 1
VarintInputs == {<<t>> \o v \o post : t \in {8, 10, 18, 32, 42, 58}, v \in {TenBytes7F, TenBytes2To64, ElevenBytes, VarintLoop(MinInt64), VarintLoop(I64(-1)), <<5>>, <<1>>}, post \in {<<>>, <<116>>}} \cup {v \o <<1>> : v \in {TenBytes7F, TenBytes2To64, ElevenBytes}}

\* field numbers as 61-bit words: 99, 0, 2^29, 2^31, 2^32, 2^32 + 1,
\* 2^32 + 2, 2^32 + 7 and 2^60 + 1
BigFieldNums == {<<>> \o [k \in 1..61 |-> IF k \in S THEN 1 ELSE 0] : S \in {{1, 2, 6, 7}, {}, {30}, {32}, {33}, {33, 1}, {33, 2}, {33, 1, 2, 3}, {61, 1}}}

\* a value for a field of the given wire type
PayloadFor(wireType) == CASE wireType = 0 -> <<5>> [] wireType = 1 -> <<1, 2, 3, 4, 5, 6, 7, 8>> [] wireType = 2 -> <<1, 116>>

BigTagInputs(k) == {pre \o TagBytes(f, wt) \o PayloadFor(wt) : pre \in PrefixesOf(k), f \in BigFieldNums, wt \in 0..2}

\* fields for the skipper: varints of 1 to 10 bytes, length-delimited fields
\* of 0 to 3 bytes, fixed-width fields whole and cut short, wire types 6
\* and 7, groups balanced and not, an over-long varint and bad lengths
SkipFields ==
    {<<8>> \o VarintLoop(LowOnes(7 * n)) : n \in 0..10} \cup {<<18, n>> \o [j \in 1..n |-> 116] : n \in 0..3}
    \cup {<<9, 1, 2, 3, 4, 5, 6, 7, 8>>, <<13, 1, 2, 3, 4>>, <<9, 1>>, <<13, 1>>, <<14, 0>>, <<15, 0>>,
          <<11, 8, 1>>, <<11, 11, 12, 12>>, <<11, 9, 1, 2, 3, 4, 5, 6, 7, 8, 12>>, <<11, 9, 1, 12>>, <<11, 18, 1, 12>>, <<12>>,
          <<8>> \o ElevenBytes, <<18>> \o VarintLoop(I64(-1)), <<18>> \o VarintLoop(MaxInt64), <<18, 5, 1>>, <<18>> \o ElevenBytes}

SkipInputs == RawStrings \cup {u \o post : u \in UnknownFields \cup SkipFields, post \in {<<>>, <<8, 1>>}}

DecodeKinds == Kinds \cup {"Skip"}

InputsOf(k) == IF k = "Skip" THEN SkipInputs ELSE RawStrings \cup TagByteInputs(k) \cup VarintInputs \cup BigTagInputs(k)

\* one iteration of the loop of m.Unmarshal for a message of kind k
Step(k, dAtA, s) == CASE k = "PartSetHeader" -> CanonicalPartSetHeaderStep(dAtA, s) [] k = "BlockID" -> CanonicalBlockIDStep(dAtA, s) [] k = "Proposal" -> CanonicalProposalStep(dAtA, s) [] k = "Vote" -> CanonicalVoteStep(dAtA, s)

InitDecode ==
    /\ kind \in DecodeKinds
    /\ msg = IF kind = "Skip" THEN <<>> ELSE ZeroOf(kind)
    /\ InitRest

\* the call begins: l := len(dAtA); iNdEx := 0 (and depth := 0 in the skipper)
Receive ==
    /\ pc = "built"
    /\ \E bs \in InputsOf(kind) : wire' = bs
    /\ pc' = IF kind = "Skip" THEN "skipping" ELSE "unmarshaling"
    /\ dec' = IF kind = "Skip" THEN dec ELSE DecodeStart(msg)
    /\ skip' = NoSkip
    /\ UNCHANGED <<kind, msg, enc, ins, trunc, threadVars, rpcVars>>

\* for iNdEx < l { ... }: one pass of the loop of Unmarshal
UnmarshalIter ==
    /\ pc = "unmarshaling"
    /\ dec.err = "nil" /\ ~dec.panic /\ dec.iNdEx < Len(wire)
    /\ dec' = Step(kind, wire, dec)
    /\ UNCHANGED <<kind, msg, pc, enc, wire, ins, trunc, threadVars, skip, rpcVars>>

\* a return inside the loop, or the end of the loop:
\* if iNdEx > l {return io.ErrUnexpectedEOF}; return nil
UnmarshalReturn ==
    /\ pc = "unmarshaling"
    /\ dec.err # "nil" \/ dec.panic \/ dec.iNdEx >= Len(wire)
    /\ dec' = DecodeEnd(wire, dec)
    /\ pc' = "unmarshaled"
    /\ UNCHANGED <<kind, msg, enc, wire, ins, trunc, threadVars, skip, rpcVars>>

\* one pass of the loop of skipCanonical, or its return
SkipIter ==
    /\ pc = "skipping"
    /\ ~skip.done
    /\ skip' = skipIter(wire, skip)
    /\ UNCHANGED <<kind, msg, pc, enc, wire, ins, trunc, dec, threadVars, rpcVars>>

NextDecode == Receive \/ UnmarshalIter \/ UnmarshalReturn \/ SkipIter

SpecDecode == InitDecode /\ [][NextDecode]_vars

\* a call, once begun, runs on: nothing but the call itself can hold up its
\* next iteration
SpecDecodeFair == SpecDecode /\ WF_vars(UnmarshalIter) /\ WF_vars(UnmarshalReturn) /\ WF_vars(SkipIter)

(***************************************************************************)
(* Marshal on messages whose timestamp may lie outside the years 1..9999   *)
(* that the timestamp encoder accepts: a time.Time holds any int64 second. *)
(***************************************************************************)
\* the first and the last second the timestamp encoder accepts, the seconds
\* next to them, and the ends of the int64 range
RangeSeconds == {minValidSeconds, Add(minValidSeconds, I64(-1)), Add(maxValidSeconds, I64(-1)), maxValidSeconds, MinInt64, MaxInt64}

RangeTimes == {[Seconds |-> sec, Nanos |-> I32(1)] : sec \in RangeSeconds}

\* the sample messages, and messages with a time at or beyond the ends of
\* the accepted range
RangeSamplesOf(k) == IF k \in {"Proposal", "Vote"} THEN SamplesOf(k) \cup {[m EXCEPT !.Timestamp = t] : m \in FewSamplesOf(k), t \in RangeTimes} ELSE SamplesOf(k)

InitRange ==
    /\ kind \in Kinds
    /\ msg \in RangeSamplesOf(kind)
    /\ InitRest

SpecRange == InitRange /\ [][Next]_vars

(***************************************************************************)
(* serverRPCConfig of inspect/rpc: the configuration of the JSON-RPC       *)
(* server, built from the server package's defaults and the node's RPC     *)
(* configuration.  WriteTimeout and TimeoutBroadcastTxCommit are           *)
(* time.Duration values (int64 nanoseconds), MaxBodyBytes is an int64 and  *)
(* MaxHeaderBytes an int.  The defaults come from server.DefaultConfig()   *)
(* and are an input here, like the RPC configuration.                      *)
(***************************************************************************)
\* time.Second, in nanoseconds
Second == I64(1000000000)

\* ten seconds, the default of both timeouts
TenSeconds == WordOfBytes(<<0, 228, 11, 84, 2, 0, 0, 0>>)

\* durations around zero, around the defaults and at the ends of the int64 range
DurationSamples == {MinInt64, I64(-1), Zero64, I64(1), Second, Add(Second, I64(1)), TenSeconds, Add(TenSeconds, Second), Add(MaxInt64, I64(-1000000000)), Add(MaxInt64, I64(-999999999)), MaxInt64}

RPCConfigSamples == [TimeoutBroadcastTxCommit : DurationSamples, MaxBodyBytes : {Zero64, I64(1000000)}, MaxHeaderBytes : {0, 1048576}]

ServerConfigSamples == [WriteTimeout : DurationSamples, MaxBodyBytes : {I64(1000000)}, MaxHeaderBytes : {1048576}]

\* cfg := server.DefaultConfig(); cfg.MaxBodyBytes = r.MaxBodyBytes; cfg.MaxHeaderBytes = r.MaxHeaderBytes;
\* if cfg.WriteTimeout <= r.TimeoutBroadcastTxCommit {cfg.WriteTimeout = r.TimeoutBroadcastTxCommit + 1*time.Second};
\* return cfg.  The sum is an int64 sum: it wraps.
serverRPCConfig(r, DefaultConfig) ==
    CHOOSE out \in
      {IF ~LtSigned(r.TimeoutBroadcastTxCommit, c.WriteTimeout) THEN [c EXCEPT !.WriteTimeout = Add(r.TimeoutBroadcastTxCommit, Second)] ELSE c
       : c \in {[DefaultConfig EXCEPT !.MaxBodyBytes = r.MaxBodyBytes, !.MaxHeaderBytes = r.MaxHeaderBytes]}} : TRUE

InitRPC ==
    /\ kind = "RPC"
    /\ msg = <<>>
    /\ InitRest

\* the node's RPC configuration and the server defaults are loaded
LoadConfig ==
    /\ kind = "RPC" /\ pc = "built"
    /\ rpcConfig' \in RPCConfigSamples
    /\ defaultConfig' \in ServerConfigSamples
    /\ pc' = "configured"
    /\ UNCHANGED <<kind, msg, enc, wire, ins, trunc, dec, threadVars, skip, cfg, serveVars, handlerVars>>

\* cfg := serverRPCConfig(rpcConfig)
ServerRPCConfig ==
    /\ pc = "configured"
    /\ cfg' = <<serverRPCConfig(rpcConfig, defaultConfig)>>
    /\ pc' = "served"
    /\ UNCHANGED <<kind, msg, enc, wire, ins, trunc, dec, threadVars, skip, rpcConfig, defaultConfig, serveVars, handlerVars>>

NextRPC == LoadConfig \/ ServerRPCConfig

SpecRPC == InitRPC /\ [][NextRPC]_vars

(***************************************************************************)
(* Server.ListenAndServe and Server.ListenAndServeTLS of inspect/rpc.  The *)
(* calling goroutine listens, starts the watcher goroutine and serves; the *)
(* watcher waits for the context and closes the listener.  The context is  *)
(* cancelled by the caller at any time, or never.  server.Listen may fail; *)
(* server.Serve and server.ServeTLS block, and return an error at a time   *)
(* of their own, with the listener closed or as it was.                    *)
(***************************************************************************)
ErrListen == "listen: address already in use"

ErrServe == "http: Server closed"

\* the server's configuration srv.Config
ServeConfigs == {r \in RPCConfigSamples : r.TimeoutBroadcastTxCommit \in {Second, TenSeconds, MaxInt64} /\ r.MaxHeaderBytes = 1048576}

\* a receive that does not wait for the context
ctxDoneAlways(c) == TRUE

\* <-ctx.Done() can proceed: the channel is closed once the context is cancelled
ctxDone(c) == c = "done"

InitServe ==
    /\ kind = "Serve"
    /\ msg = <<>>
    /\ InitRest

\* the caller cancels the context
Cancel ==
    /\ kind = "Serve"
    /\ ctx = "active"
    /\ ctx' = "done"
    /\ UNCHANGED <<kind, msg, codecVars, threadVars, skip, rpcConfig, defaultConfig, cfg, listener, watcher, call, handlerVars>>

\* listener, err := server.Listen(srv.Addr, srv.Config.MaxOpenConnections); if err != nil {return err}
\* tls tells ListenAndServeTLS from ListenAndServe
Listen ==
    /\ kind = "Serve"
    /\ call.pc = "idle"
    /\ rpcConfig' \in ServeConfigs
    /\ defaultConfig' = [WriteTimeout |-> TenSeconds, MaxBodyBytes |-> I64(1000000), MaxHeaderBytes |-> 1048576]
    /\ \E tls \in BOOLEAN, ok \in BOOLEAN :
          /\ listener' = IF ok THEN "open" ELSE "nil"
          /\ call' = IF ok THEN [pc |-> "listened", tls |-> tls, err |-> "nil"] ELSE [pc |-> "returned", tls |-> tls, err |-> ErrListen]
    /\ UNCHANGED <<kind, msg, codecVars, threadVars, skip, cfg, ctx, watcher, handlerVars>>

\* go func() { <-ctx.Done(); listener.Close() }()
Spawn ==
    /\ call.pc = "listened"
    /\ watcher' = "blocked"
    /\ call' = [call EXCEPT !.pc = "spawned"]
    /\ UNCHANGED <<kind, msg, codecVars, threadVars, skip, rpcConfig, defaultConfig, cfg, ctx, listener, handlerVars>>

\* server.Serve(listener, srv.Handler, srv.Logger, serverRPCConfig(srv.Config)) (or ServeTLS) is called
ServeCall ==
    /\ call.pc = "spawned"
    /\ cfg' = <<serverRPCConfig(rpcConfig, defaultConfig)>>
    /\ call' = [call EXCEPT !.pc = "serving"]
    /\ UNCHANGED <<kind, msg, codecVars, threadVars, skip, rpcConfig, defaultConfig, ctx, listener, watcher, handlerVars>>

\* return server.Serve(...): Serve returns its error
ServeReturn ==
    /\ call.pc = "serving"
    /\ call' = [call EXCEPT !.pc = "returned", !.err = ErrServe]
    /\ listener' \in {listener, "closed"}
    /\ UNCHANGED <<kind, msg, codecVars, threadVars, skip, rpcConfig, defaultConfig, cfg, ctx, watcher, handlerVars>>

\* <-ctx.Done()
WatcherReceive ==
    /\ watcher = "blocked"
    /\ ctxDone(ctx)
    /\ watcher' = "woken"
    /\ UNCHANGED <<kind, msg, codecVars, threadVars, skip, rpcConfig, defaultConfig, cfg, ctx, listener, call, handlerVars>>

\* listener.Close(), and the goroutine ends
WatcherClose ==
    /\ watcher = "woken"
    /\ listener' = "closed"
    /\ watcher' = "exited"
    /\ UNCHANGED <<kind, msg, codecVars, threadVars, skip, rpcConfig, defaultConfig, cfg, ctx, call, handlerVars>>

NextServe == Cancel \/ Listen \/ Spawn \/ ServeCall \/ ServeReturn \/ WatcherReceive \/ WatcherClose

SpecServe == InitServe /\ [][NextServe]_vars

\* goroutines that can run do run: the calling goroutine reaches its go
\* statement, and the watcher its receive and its Close
SpecServeFair == SpecServe /\ WF_vars(Spawn) /\ WF_vars(WatcherReceive) /\ WF_vars(WatcherClose)

(***************************************************************************)
(* Handler of inspect/rpc: it declares the local variable eventBus, builds *)
(* the websocket manager with the disconnect callback and the read limit,  *)
(* and wraps the mux in the CORS handler when CORS is enabled.  The        *)
(* websocket manager calls the callback with the remote address when a     *)
(* client's connection ends.  A method call on a nil interface value is a  *)
(* run-time panic in Go.                                                   *)
(***************************************************************************)
ErrSubscriptionNotFound == "subscription not found"

ErrUnsubscribe == "unsubscribe failed"

\* err := eventBus.UnsubscribeAll(context.Background(), remoteAddr), err being
\* what a subscriber would return;
\* if err != nil && err != pubsub.ErrSubscriptionNotFound {wmLogger.Error(...)}
websocketDisconnectFn(bus, err) ==
    IF bus = "nil" THEN [panic |-> TRUE, logged |-> FALSE]
    ELSE [panic |-> FALSE, logged |-> err # "nil" /\ err # ErrSubscriptionNotFound]

InitHandler ==
    /\ kind = "Handler"
    /\ msg = <<>>
    /\ InitRest

\* Handler(rpcConfig, routes, logger): var eventBus types.EventBusSubscriber is
\* declared and nothing is assigned to it
Handler ==
    /\ kind = "Handler"
    /\ wm = <<>>
    /\ rpcConfig' \in ServeConfigs
    /\ eventBus' = "nil"
    /\ \E cors \in BOOLEAN : wm' = <<[onDisconnect |-> TRUE, readLimit |-> rpcConfig'.MaxBodyBytes, cors |-> cors]>>
    /\ UNCHANGED <<kind, msg, codecVars, threadVars, skip, defaultConfig, cfg, serveVars, conns, logged>>

\* a client at remote address a opens a websocket connection
Connect(a) ==
    /\ wm # <<>>
    /\ conns[a] = "none"
    /\ conns' = [conns EXCEPT ![a] = "open"]
    /\ UNCHANGED <<kind, msg, codecVars, threadVars, skip, rpcConfig, defaultConfig, cfg, serveVars, eventBus, wm, logged>>

\* the connection of a ends and the manager calls the registered callback
Disconnect(a) ==
    /\ wm # <<>> /\ wm[1].onDisconnect
    /\ conns[a] = "open"
    /\ \E err \in {"nil", ErrSubscriptionNotFound, ErrUnsubscribe} :
          /\ conns' = [conns EXCEPT ![a] = IF websocketDisconnectFn(eventBus, err).panic THEN "panicked" ELSE "closed"]
          /\ logged' = IF websocketDisconnectFn(eventBus, err).logged THEN logged \cup {a} ELSE logged
    /\ UNCHANGED <<kind, msg, codecVars, threadVars, skip, rpcConfig, defaultConfig, cfg, serveVars, eventBus, wm>>

NextHandler == Handler \/ \E a \in RemoteAddrs : Connect(a) \/ Disconnect(a)

SpecHandler == InitHandler /\ [][NextHandler]_vars

(***************************************************************************)
(* Reading an encoding as the wire format defines it, to state what the    *)
(* encoder must have written: the fields in order, each with its tag byte  *)
(* and the bytes of its value.                                             *)
(***************************************************************************)
\* the 1-based index of the last byte of the varint that starts at bs[k], or 0
RECURSIVE VarintEnd(_, _)
VarintEnd(bs, k) == IF k > Len(bs) THEN 0 ELSE IF bs[k] < 128 THEN k ELSE VarintEnd(bs, k + 1)

\* the value of the varint bs[k..e], for a short one
RECURSIVE ShortVarint(_, _, _)
ShortVarint(bs, k, e) == IF k > e THEN 0 ELSE (bs[k] % 128) + 128 * ShortVarint(bs, k + 1, e)

Malformed(bs) == <<[tag |-> -1, body |-> bs, size |-> Len(bs)]>>

RECURSIVE Fields(_)
Fields(bs) ==
    IF bs = <<>> THEN <<>>
    ELSE LET t == bs[1]
             e == VarintEnd(bs, 2)
             n == ShortVarint(bs, 2, e)
             field(last, body) == <<[tag |-> t, body |-> body, size |-> last]>> \o Fields(SubSeq(bs, last + 1, Len(bs)))
         IN IF t >= 128 THEN Malformed(bs)
            ELSE CASE t % 8 = 0 -> IF e = 0 THEN Malformed(bs) ELSE field(e, SubSeq(bs, 2, e))
                   [] t % 8 = 1 -> IF Len(bs) < 9 THEN Malformed(bs) ELSE field(9, SubSeq(bs, 2, 9))
                   [] t % 8 = 2 -> IF e = 0 \/ e > 4 THEN Malformed(bs)
                                   ELSE IF e + n > Len(bs) THEN Malformed(bs)
                                   ELSE field(e + n, SubSeq(bs, e + 1, e + n))
                   [] OTHER -> Malformed(bs)

\* the tag bytes of an encoding, in order
TagSeq(bs) == LET fs == Fields(bs) IN <<>> \o [j \in 1..Len(fs) |-> fs[j].tag]

TagSet(bs) == {TagSeq(bs)[j] : j \in 1..Len(TagSeq(bs))}

\* the value bytes of the first field with the given tag byte
Body(bs, tag) == LET fs == Fields(bs) IN fs[CHOOSE j \in 1..Len(fs) : fs[j].tag = tag /\ \A h \in 1..(j - 1) : fs[h].tag # tag].body

\* strictly ascending
Ascending(ts) == \A j \in 1..(Len(ts) - 1) : ts[j] < ts[j + 1]

\* the base-128 varint of a 64-bit value: its bits in groups of seven, least
\* significant group first, every byte but the last with the high bit set
Group7(x, g) == LET bit(k) == IF k <= 64 THEN x[k] ELSE 0 IN bit(7*g + 1) + 2*bit(7*g + 2) + 4*bit(7*g + 3) + 8*bit(7*g + 4) + 16*bit(7*g + 5) + 32*bit(7*g + 6) + 64*bit(7*g + 7)

Groups(x) == IF IsZero(x) THEN 1 ELSE CHOOSE n \in 1..10 : (\A g \in n..9 : Group7(x, g) = 0) /\ Group7(x, n - 1) # 0

Base128(x) == <<>> \o [j \in 1..Groups(x) |-> Group7(x, j - 1) + (IF j < Groups(x) THEN 128 ELSE 0)]

\* the eight bytes of a 64-bit value, least significant first
LittleEndian8(x) == <<ByteOf(x, 0), ByteOf(x, 1), ByteOf(x, 2), ByteOf(x, 3), ByteOf(x, 4), ByteOf(x, 5), ByteOf(x, 6), ByteOf(x, 7)>>

\* the tag bytes of each message type: (field number << 3) | wire type
TagsOf(k) ==
    CASE k = "PartSetHeader" -> {8, 18}
      [] k = "BlockID" -> {10, 18}
      [] k = "Proposal" -> {8, 17, 25, 32, 42, 50, 58}
      [] k = "Vote" -> {8, 17, 25, 34, 42, 50, 58}

\* x.Marshal() has just returned without an error
Marshaled == pc = "marshaled" /\ ins = 0 /\ trunc = <<>> /\ enc.err = "nil" /\ ~enc.panic

\* Unmarshal has returned
Decoded == pc = "unmarshaled"

(***************************************************************************)
(* C1.  Round trip: for every value x of CanonicalPartSetHeader,           *)
(* CanonicalBlockID, CanonicalProposal and CanonicalVote, Unmarshal of     *)
(* Marshal(x) into a zero message succeeds and yields a message equal to   *)
(* x field by field, having read all the bytes.                            *)
(***************************************************************************)
C1_RoundTrip ==
    Decoded /\ ins = 0 /\ trunc = <<>> =>
        /\ dec.err = "nil" /\ ~dec.panic
        /\ dec.m = msg
        /\ dec.iNdEx = Len(wire)

\* a vote with a negative height, a block id and a vote extension came back
C1_Witness ==
    /\ Decoded /\ kind = "Vote"
    /\ IsNeg(msg.Height) /\ IsNeg(msg.Type)
    /\ msg.BlockID # <<>> /\ msg.BlockID[1].Hash # <<>>
    /\ msg.VoteExtension # <<>>
    /\ dec.m = msg

(***************************************************************************)
(* C2.  Marshal is deterministic and pure: calls of Marshal on the same    *)
(* message, one after another or concurrently from several threads, all   *)
(* return the bytes a lone call returns, and no step of a call changes the *)
(* message.                                                                *)
(***************************************************************************)
C2_MarshalDeterministicAndPure ==
    /\ [](\A t \in Threads : tpc[t] = "done" => tout[t] = Marshal(kind, msg))
    /\ [][msg' = msg /\ kind' = kind]_vars

\* every thread has returned the non-empty encoding of a vote
C2_Witness ==
    /\ \A t \in Threads : tpc[t] = "done" /\ tout[t].err = "nil" /\ Len(tout[t].dAtA) > 9
    /\ kind = "Vote"

(***************************************************************************)
(* C3.  Vote encodings never collide: two CanonicalVote values that differ *)
(* in a field have different encodings (so votes for round 2 and round 3   *)
(* differ), and a vote with a vote extension, even an empty one, differs   *)
(* in encoded length from the same vote without one.                       *)
(***************************************************************************)
VoteEncodings == {[m |-> v, dAtA |-> CanonicalVote_Marshal(v).dAtA] : v \in VoteSamples}

C3_VoteEncodingsNeverCollide ==
    Marshaled /\ kind = "Vote" =>
        /\ \A r \in VoteEncodings : r.m # msg => r.dAtA # enc.dAtA
        /\ msg.VoteExtension # <<>> =>
              Len(enc.dAtA) # Len(CanonicalVote_Marshal([msg EXCEPT !.VoteExtension = <<>>]).dAtA)

\* a vote for round 2 with an empty vote extension was marshaled, and the
\* same vote for round 3 is among the values compared with it
C3_Witness ==
    /\ Marshaled /\ kind = "Vote"
    /\ msg.Round = I64(2)
    /\ msg.VoteExtension = <<ZeroVoteExtension>>
    /\ \E r \in VoteEncodings : r.m = [msg EXCEPT !.Round = I64(3)] /\ r.dAtA # enc.dAtA

(***************************************************************************)
(* C4.  Presence rules of CanonicalProposal and CanonicalVote: type,       *)
(* height, round and pol_round are written iff non-zero, block_id iff      *)
(* present, chain_id iff non-empty, vote_extension iff present, and the    *)
(* timestamp always.  A proposal with every numeric field zero, no block   *)
(* id and a non-empty chain id is the timestamp field followed by the      *)
(* chain_id field under tag 7, and nothing else.                           *)
(***************************************************************************)
C4_PresenceRules ==
    Marshaled /\ kind \in {"Proposal", "Vote"} =>
        LET tags == TagSet(enc.dAtA)
        IN /\ tags \subseteq TagsOf(kind)
           /\ 8 \in tags <=> ~IsZero(msg.Type)
           /\ 17 \in tags <=> ~IsZero(msg.Height)
           /\ 25 \in tags <=> ~IsZero(msg.Round)
           /\ kind = "Proposal" =>
                /\ 32 \in tags <=> ~IsZero(msg.POLRound)
                /\ 42 \in tags <=> msg.BlockID # <<>>
                /\ 50 \in tags
                /\ 58 \in tags <=> msg.ChainID # <<>>
                /\ [msg EXCEPT !.Timestamp = ZeroTime, !.ChainID = <<>>] = ZeroProposal /\ msg.ChainID # <<>> =>
                     /\ TagSeq(enc.dAtA) = <<50, 58>>
                     /\ Body(enc.dAtA, 58) = msg.ChainID
           /\ kind = "Vote" =>
                /\ 34 \in tags <=> msg.BlockID # <<>>
                /\ 42 \in tags
                /\ 50 \in tags <=> msg.ChainID # <<>>
                /\ 58 \in tags <=> msg.VoteExtension # <<>>

\* the all-zero proposal with a chain id and the epoch as its time (an
\* empty timestamp message) was marshaled
C4_Witness ==
    /\ Marshaled /\ kind = "Proposal"
    /\ msg = [ZeroProposal EXCEPT !.ChainID = Filled, !.Timestamp = [Seconds |-> Zero64, Nanos |-> Zero32]]
    /\ enc.dAtA = <<50, 0, 58, Len(Filled)>> \o Filled

C6_TruncatedUnknownField ==
    Decoded /\ trunc # <<>> =>
        /\ ~dec.panic
        /\ dec.err = IF IsNeg(trunc[1].length) \/ IsNeg(Add(WordOfNat(trunc[1].payload, 64), trunc[1].length))
                     THEN ErrInvalidLengthCanonical
                     ELSE ErrUnexpectedEOF

\* a vote with field 99 in the middle, declaring one byte more than
\* follows it, was rejected as truncated
C6_Witness ==
    /\ Decoded /\ trunc # <<>> /\ kind = "Vote"
    /\ trunc[1].at > 0 /\ trunc[1].at < Len(enc.dAtA)
    /\ trunc[1].length = WordOfNat(Len(wire) - trunc[1].payload + 1, 64)
    /\ SubSeq(wire, trunc[1].at + 1, trunc[1].at + 2) = <<154, 6>>
    /\ dec.err = ErrUnexpectedEOF

\* C6 as stated: the error is io.ErrUnexpectedEOF for every such length
C6_AlwaysUnexpectedEOF ==
    Decoded /\ trunc # <<>> => dec.err = ErrUnexpectedEOF /\ ~dec.panic

(***************************************************************************)
(* C7.  Forward compatibility: with well-formed fields of unknown numbers  *)
(* (wire types 0, 1, 2 and 5, or a balanced group) inserted between the    *)
(* fields of Marshal(x), Unmarshal succeeds and the decoded message equals *)
(* x: skipping such a field changes no field of the message.               *)
(***************************************************************************)
C7_UnknownFieldsSkipped ==
    Decoded /\ ins > 0 /\ trunc = <<>> =>
        /\ dec.err = "nil" /\ ~dec.panic
        /\ dec.m = msg
        /\ dec.iNdEx = Len(wire)

\* a vote came back unchanged from bytes that hold a group of field 9
\* between two of its fields
C7_Witness ==
    /\ Decoded /\ ins > 0 /\ trunc = <<>> /\ kind = "Vote"
    /\ msg.VoteExtension # <<>> /\ msg.BlockID # <<>>
    /\ \E p \in 1..(Len(enc.dAtA) - 1) : SubSeq(wire, p + 1, p + 3) = <<75, 80, 5>> /\ Len(wire) > p + 11
    /\ dec.m = msg

(***************************************************************************)
(* C8.  Every encoder writes its fields in strictly ascending field-number *)
(* order, each at most once, each starting with the single tag byte        *)
(* (field number << 3) | wire type of the field tables; the nested block   *)
(* id and part-set header likewise.                                        *)
(***************************************************************************)
WellOrdered(bs, k) == Ascending(TagSeq(bs)) /\ TagSet(bs) \subseteq TagsOf(k)

C8_AscendingTagOrder ==
    Marshaled =>
        /\ WellOrdered(enc.dAtA, kind)
        /\ kind = "BlockID" => WellOrdered(Body(enc.dAtA, 18), "PartSetHeader")
        /\ kind = "Proposal" /\ msg.BlockID # <<>> =>
              /\ WellOrdered(Body(enc.dAtA, 42), "BlockID")
              /\ WellOrdered(Body(Body(enc.dAtA, 42), 18), "PartSetHeader")
        /\ kind = "Vote" /\ msg.BlockID # <<>> =>
              /\ WellOrdered(Body(enc.dAtA, 34), "BlockID")
              /\ WellOrdered(Body(Body(enc.dAtA, 34), 18), "PartSetHeader")

\* a vote with all seven fields, holding a block id with both fields and a
\* part-set header with both fields
C8_Witness ==
    /\ Marshaled /\ kind = "Vote"
    /\ TagSeq(enc.dAtA) = <<8, 17, 25, 34, 42, 50, 58>>
    /\ TagSeq(Body(enc.dAtA, 34)) = <<10, 18>>
    /\ TagSeq(Body(Body(enc.dAtA, 34), 18)) = <<8, 18>>

(***************************************************************************)
(* C9.  Height and round are fixed64: a non-zero height or round of a      *)
(* proposal or vote is written as exactly 8 little-endian bytes after its  *)
(* tag, whatever its magnitude or sign, so that it adds exactly 9 bytes to *)
(* the encoding, and it decodes back to the same signed value.             *)
(***************************************************************************)
C9_HeightRoundFixed64 ==
    kind \in {"Proposal", "Vote"} =>
        /\ Marshaled /\ ~IsZero(msg.Height) =>
              /\ Body(enc.dAtA, 17) = LittleEndian8(msg.Height)
              /\ Len(enc.dAtA) = Len(Marshal(kind, [msg EXCEPT !.Height = Zero64]).dAtA) + 9
        /\ Marshaled /\ ~IsZero(msg.Round) =>
              /\ Body(enc.dAtA, 25) = LittleEndian8(msg.Round)
              /\ Len(enc.dAtA) = Len(Marshal(kind, [msg EXCEPT !.Round = Zero64]).dAtA) + 9
        /\ Decoded /\ ins = 0 /\ trunc = <<>> => dec.m.Height = msg.Height /\ dec.m.Round = msg.Round

\* a vote with the least int64 as height and round -1 came back
C9_Witness ==
    /\ Decoded /\ kind = "Vote"
    /\ msg.Height = MinInt64 /\ msg.Round = I64(-1)
    /\ Body(enc.dAtA, 17) = <<0, 0, 0, 0, 0, 0, 0, 128>>
    /\ Body(enc.dAtA, 25) = <<255, 255, 255, 255, 255, 255, 255, 255>>
    /\ dec.m.Height = MinInt64 /\ dec.m.Round = I64(-1)

(***************************************************************************)
(* C10.  CanonicalPartSetHeader writes total as a varint in field 1 iff it *)
(* is non-zero and hash in field 2 iff it is non-empty.  CanonicalBlockID  *)
(* writes hash in field 1 iff it is non-empty and always writes field 2,   *)
(* the nested part-set header, so its encoding has at least 2 bytes; an    *)
(* all-zero header is the two bytes 0x12 0x00.                             *)
(***************************************************************************)
C10_PartSetHeaderAndBlockIDShape ==
    /\ Marshaled /\ kind = "PartSetHeader" =>
          LET tags == TagSet(enc.dAtA)
          IN /\ tags \subseteq {8, 18}
             /\ 8 \in tags <=> ~IsZero(msg.Total)
             /\ 18 \in tags <=> msg.Hash # <<>>
             /\ 8 \in tags => Body(enc.dAtA, 8) = Base128(ZeroExt64(msg.Total))
             /\ 18 \in tags => Body(enc.dAtA, 18) = msg.Hash
    /\ Marshaled /\ kind = "BlockID" =>
          LET tags == TagSet(enc.dAtA)
          IN /\ tags \subseteq {10, 18}
             /\ 10 \in tags <=> msg.Hash # <<>>
             /\ 10 \in tags => Body(enc.dAtA, 10) = msg.Hash
             /\ 18 \in tags
             /\ Len(enc.dAtA) >= 2
             /\ Body(enc.dAtA, 18) = CanonicalPartSetHeader_Marshal(msg.PartSetHeader).dAtA
             /\ msg.PartSetHeader = ZeroPartSetHeader => SubSeq(enc.dAtA, Len(enc.dAtA) - 1, Len(enc.dAtA)) = <<18, 0>>

\* the block id with no hash and an all-zero header is the bytes 0x12 0x00
C10_Witness ==
    /\ Marshaled /\ kind = "BlockID"
    /\ msg = ZeroBlockID
    /\ enc.dAtA = <<18, 0>>

(***************************************************************************)
(* C11.  Varint codec: for every unsigned 64-bit v, encodeVarintCanonical  *)
(* writes the minimal base-128 continuation form of v: exactly             *)
(* sovCanonical(v) bytes, between 1 and 10, every byte but the last with   *)
(* the high bit set and the last without; the decoders' varint loop reads  *)
(* that form back to v, and reading any proper prefix of it fails with     *)
(* io.ErrUnexpectedEOF.                                                    *)
(***************************************************************************)
C11_VarintCodec ==
    kind = "Varint" =>
        /\ pc # "built" =>
              /\ ~enc.panic /\ enc.i = 0
              /\ Len(enc.dAtA) = sovCanonical(msg)
              /\ Len(enc.dAtA) \in 1..10
              /\ \A j \in 1..Len(enc.dAtA) : enc.dAtA[j] >= 128 <=> j < Len(enc.dAtA)
              /\ enc.dAtA = Base128(msg)
        /\ pc = "unmarshaled" /\ wire = enc.dAtA =>
              /\ dec.err = "nil" /\ ~dec.panic
              /\ dec.m = msg
              /\ dec.iNdEx = Len(wire)
        /\ pc = "unmarshaled" /\ Len(wire) < Len(enc.dAtA) =>
              /\ dec.err = ErrUnexpectedEOF /\ ~dec.panic

\* the largest uint64 was written as ten bytes and read back
C11_Witness ==
    /\ kind = "Varint" /\ pc = "unmarshaled"
    /\ msg = LowOnes(64)
    /\ wire = <<255, 255, 255, 255, 255, 255, 255, 255, 255, 1>>
    /\ dec.m = msg /\ dec.err = "nil"

(***************************************************************************)
(* Reading raw input as the wire format defines it.                        *)
(***************************************************************************)
\* the varint that starts at bs[k] spells a value of more than 64 bits: it
\* runs to a tenth byte that carries more than bit 63, or beyond it
Oversized(bs, k) == Len(bs) >= k + 9 /\ (\A j \in k..(k + 8) : bs[j] >= 128) /\ bs[k + 9] > 1

\* the ten-byte varint that starts at bs[k] has bit 63 set and nothing above
\* it: negative as an int64
NegativeVarint(bs, k) == Len(bs) >= k + 9 /\ (\A j \in k..(k + 8) : bs[j] >= 128) /\ bs[k + 9] = 1

\* the minimal varint of at most nine bytes that starts at bs[k] declares
\* more bytes than follow it
ExceedsBuffer(bs, k) ==
    LET e == VarintEnd(bs, k)
    IN /\ e # 0 /\ e - k < 9
       /\ IF e - k < 4 THEN ShortVarint(bs, k, e) > Len(bs) - e ELSE bs[e] # 0

\* Unmarshal of a message of kind k has returned for bytes that begin with
\* a known field's tag byte of wire type wt
FirstFieldOf(wt) == pc = "unmarshaled" /\ kind \in Kinds /\ wire # <<>> /\ wire[1] \in TagsOf(kind) /\ wire[1] % 8 = wt

(***************************************************************************)
(* C12.  Overflow conditions on decode: a varint (tag, value or length)    *)
(* whose value exceeds 64 bits, and a length-delimited field whose         *)
(* declared length is negative or exceeds the buffer, each make the        *)
(* decoder fail with ErrIntOverflowCanonical; no such input is accepted    *)
(* with a silently truncated value.                                        *)
(***************************************************************************)
C12_OverflowOnDecode ==
    /\ pc = "unmarshaled" /\ kind \in Kinds /\ Oversized(wire, 1) => dec.err = ErrIntOverflowCanonical
    /\ (FirstFieldOf(0) \/ FirstFieldOf(2)) /\ Oversized(wire, 2) => dec.err = ErrIntOverflowCanonical
    /\ FirstFieldOf(2) /\ (NegativeVarint(wire, 2) \/ ExceedsBuffer(wire, 2)) => dec.err = ErrIntOverflowCanonical

\* Unmarshal stands before a loop iteration
AtIteration == pc = "unmarshaling" /\ dec.err = "nil" /\ ~dec.panic /\ dec.iNdEx < Len(wire)

\* the byte b is a tag of one of the field numbers of kind k with a wire type
\* other than the one the field is declared with
WrongWireTag(k, b) == b < 128 /\ b \notin TagsOf(k) /\ \E t \in TagsOf(k) : t \div 8 = b \div 8

(***************************************************************************)
(* C13.  Invalid wire type: when the loop of Unmarshal reads a tag that    *)
(* pairs a known field number of the message with a wire type other than   *)
(* the field's declared one, that iteration ends in an error at the tag:   *)
(* the read index stands right after the tag, no byte after it has been    *)
(* read as the field's value, and every field of the message has the value *)
(* it had before the tag was read.  Unmarshal returns that error and       *)
(* leaves the message as it is.                                            *)
(***************************************************************************)
C13_WrongWireType ==
    /\ [][AtIteration /\ kind \in Kinds /\ WrongWireTag(kind, wire[dec.iNdEx + 1]) =>
            /\ dec'.err # "nil" /\ ~dec'.panic
            /\ dec'.iNdEx = dec.iNdEx + 1
            /\ dec'.m = dec.m
            /\ pc' = "unmarshaling"]_vars
    /\ [][pc = "unmarshaling" /\ dec.err # "nil" => pc' = "unmarshaled" /\ dec' = dec]_vars

\* a vote was decoded in full, and then height's field number came with
\* wire type 0: the call failed at that tag and the vote is as it was
C13_Witness ==
    /\ pc = "unmarshaled" /\ kind = "Vote"
    /\ dec.iNdEx > 1 /\ wire[dec.iNdEx] = 16
    /\ SubSeq(wire, 1, dec.iNdEx - 1) = Marshal("Vote", FullOf("Vote")).dAtA
    /\ dec.err = ErrWrongWireType
    /\ dec.m = FullOf("Vote")

\* the error of the timestamp encoder for the time t, "nil" for none
TimestampError(t) == StdTimeMarshalTo(t, MakeBuf(0), 0).err

\* the same for the time of a message of kind k; the two smaller message
\* types hold no time
TimestampErrorOf(k, m) == IF k \in {"Proposal", "Vote"} THEN TimestampError(m.Timestamp) ELSE "nil"

\* x.Marshal() has returned
Returned == pc \in {"marshaled", "unmarshaled"} /\ kind \in Kinds

(***************************************************************************)
(* C14.  Encoding cannot fail for structurally valid input: Marshal of a   *)
(* CanonicalPartSetHeader or CanonicalBlockID never returns an error, and  *)
(* Marshal of a CanonicalProposal or CanonicalVote returns an error only   *)
(* when the timestamp encoder reports one for the message's time (the      *)
(* vote-extension encoder reports none); when it does, Marshal returns     *)
(* that error and no bytes, not a partial encoding.  No call panics.       *)
(***************************************************************************)
C14_EncodingErrors ==
    Returned =>
        /\ ~enc.panic
        /\ kind \in {"PartSetHeader", "BlockID"} => enc.err = "nil"
        /\ kind \in {"Proposal", "Vote"} =>
              /\ enc.err = TimestampError(msg.Timestamp)
              /\ enc.err # "nil" => enc.dAtA = <<>>

\* a vote with a chain id, a block id and a vote extension, timed at the
\* first second of the year 10000, was refused: an error and no bytes
C14_Witness ==
    /\ Returned /\ kind = "Vote"
    /\ msg.ChainID # <<>> /\ msg.VoteExtension # <<>> /\ msg.BlockID # <<>>
    /\ msg.Timestamp.Seconds = maxValidSeconds
    /\ enc.err = "ErrTimestampRange"
    /\ enc.dAtA = <<>>

\* the nested message under the tag byte holds exactly size bytes
NestedSize(tag, size) == Len(Body(enc.dAtA, tag)) = size

\* every length prefix of a nested message is the nested message's Size()
NestedSizesAgree ==
    /\ kind = "BlockID" => NestedSize(18, CanonicalPartSetHeader_Size(msg.PartSetHeader))
    /\ kind = "Proposal" =>
          /\ NestedSize(50, SizeOfStdTime(msg.Timestamp))
          /\ msg.BlockID # <<>> =>
                /\ NestedSize(42, CanonicalBlockID_Size(msg.BlockID[1]))
                /\ Len(Body(Body(enc.dAtA, 42), 18)) = CanonicalPartSetHeader_Size(msg.BlockID[1].PartSetHeader)
    /\ kind = "Vote" =>
          /\ NestedSize(42, SizeOfStdTime(msg.Timestamp))
          /\ msg.BlockID # <<>> =>
                /\ NestedSize(34, CanonicalBlockID_Size(msg.BlockID[1]))
                /\ Len(Body(Body(enc.dAtA, 34), 18)) = CanonicalPartSetHeader_Size(msg.BlockID[1].PartSetHeader)
          /\ msg.VoteExtension # <<>> => NestedSize(58, VoteExtensionToSign_Size(msg.VoteExtension[1]))

(***************************************************************************)
(* C18.  Size agrees with Marshal: for every CanonicalPartSetHeader,       *)
(* CanonicalBlockID, CanonicalProposal and CanonicalVote value whose time  *)
(* the timestamp encoder accepts, MarshalToSizedBuffer given a buffer of   *)
(* exactly Size() bytes writes backwards from the end without an index out *)
(* of range, ends with its write index at 0 having filled the buffer with  *)
(* the message's fields, and returns n = Size(); so len(Marshal(x)) =      *)
(* x.Size(), and each nested length prefix equals the nested message's     *)
(* Size().                                                                 *)
(***************************************************************************)
C18_SizeAgreesWithMarshal ==
    Returned /\ TimestampErrorOf(kind, msg) = "nil" =>
        /\ ~enc.panic /\ enc.err = "nil"
        /\ enc.i = 0
        /\ Len(enc.dAtA) = Size(kind, msg)
        /\ TagSet(enc.dAtA) \subseteq TagsOf(kind)
        /\ NestedSizesAgree

\* a proposal with every field set, pol_round -1 among them, has filled a
\* buffer of Size() bytes down to index 0
C18_Witness ==
    /\ Returned /\ kind = "Proposal"
    /\ msg.POLRound = I64(-1) /\ msg.BlockID # <<>> /\ msg.BlockID[1].Hash # <<>> /\ msg.ChainID # <<>>
    /\ ~IsZero(msg.Type) /\ ~IsZero(msg.Height) /\ ~IsZero(msg.Round) /\ ~IsZero(msg.Timestamp.Seconds)
    /\ enc.i = 0
    /\ Len(enc.dAtA) = CanonicalProposal_Size(msg)
    /\ Len(enc.dAtA) > 60

\* C18 as stated: for every value, whatever its time
C18_SizeAgreesForEveryValue ==
    Returned =>
        /\ ~enc.panic
        /\ enc.i = 0
        /\ Len(enc.dAtA) = Size(kind, msg)

\* the number of bytes of the complete field of wire type 0, 1, 2 or 5 at
\* the start of bs, whose tag ends at bs[te]; 0 when there is none
FieldSize(bs, te) ==
    LET wt == bs[1] % 8
        e == VarintEnd(bs, te + 1)
    IN CASE wt = 0 -> IF e # 0 /\ e - te <= 10 THEN e ELSE 0
         [] wt = 1 -> IF Len(bs) >= te + 8 THEN te + 8 ELSE 0
         [] wt = 2 -> IF e # 0 /\ e - te <= 4 /\ e + ShortVarint(bs, te + 1, e) <= Len(bs) THEN e + ShortVarint(bs, te + 1, e) ELSE 0
         [] wt = 5 -> IF Len(bs) >= te + 4 THEN te + 4 ELSE 0
         [] OTHER -> 0

\* skipCanonical has returned for an input that begins with a whole tag of
\* at most five bytes
SkippedTag == kind = "Skip" /\ skip.done /\ VarintEnd(wire, 1) \in 1..5

(***************************************************************************)
(* C15.  Skipper step sizes: for an input that begins with one complete    *)
(* field, skipCanonical returns exactly the number of bytes the field      *)
(* occupies, whatever follows it: the tag and one varint for wire type 0,  *)
(* the tag and 8 bytes for wire type 1, the tag, the length varint and     *)
(* that many bytes for wire type 2, the tag and 4 bytes for wire type 5.   *)
(* A tag of wire type 6 or 7 is rejected with the illegal-wire-type error. *)
(***************************************************************************)
C15_SkipperStepSizes ==
    SkippedTag =>
        /\ ~skip.panic
        /\ FieldSize(wire, VarintEnd(wire, 1)) # 0 =>
              /\ skip.err = "nil"
              /\ skip.n = WordOfNat(FieldSize(wire, VarintEnd(wire, 1)), 64)
        /\ wire[1] % 8 \in {6, 7} => skip.err = ErrIllegalWireType

\* a length-delimited field of three bytes with another field after it was
\* skipped as five bytes
C15_Witness ==
    /\ SkippedTag
    /\ wire = <<18, 3, 116, 116, 116, 8, 1>>
    /\ skip.err = "nil"
    /\ skip.n = WordOfNat(5, 64)

\* skipCanonical stands before a loop iteration
SkipAtIteration == kind = "Skip" /\ pc = "skipping" /\ ~skip.done

\* ... with a whole tag of wire type wt as the next bytes
SkipAtTag(wt) ==
    /\ SkipAtIteration /\ skip.iNdEx < Len(wire)
    /\ VarintEnd(wire, skip.iNdEx + 1) # 0 /\ VarintEnd(wire, skip.iNdEx + 1) - skip.iNdEx <= 10
    /\ wire[skip.iNdEx + 1] % 8 = wt

\* ... with nothing left, or with the input ending inside the tag varint or
\* inside the varint of a field of wire type 0
SkipRunsOut ==
    /\ SkipAtIteration
    /\ \/ skip.iNdEx >= Len(wire)
       \/ VarintEnd(wire, skip.iNdEx + 1) = 0 /\ Len(wire) - skip.iNdEx < 10
       \/ /\ SkipAtTag(0)
          /\ VarintEnd(wire, VarintEnd(wire, skip.iNdEx + 1) + 1) = 0
          /\ Len(wire) - VarintEnd(wire, skip.iNdEx + 1) < 10

\* the depth goes up by one on a start-group tag and down by one on an
\* end-group tag, an end-group tag at depth 0 is an error, and no other
\* field changes the depth
SkipTracksGroups ==
    /\ [][SkipAtTag(3) => skip'.depth = skip.depth + 1 /\ ~skip'.done]_vars
    /\ [][SkipAtTag(4) /\ skip.depth > 0 => skip'.depth = skip.depth - 1 /\ skip'.err = "nil" /\ (skip'.done <=> skip.depth = 1)]_vars
    /\ [][SkipAtTag(4) /\ skip.depth = 0 => skip'.done /\ skip'.err = ErrUnexpectedEndOfGroupCanonical]_vars
    /\ [][SkipAtIteration => skip'.depth = skip.depth \/ SkipAtTag(3) \/ SkipAtTag(4)]_vars

\* running out of input is io.ErrUnexpectedEOF
SkipTruncated == [][SkipRunsOut => skip'.done /\ skip'.err = ErrUnexpectedEOF]_vars

(***************************************************************************)
(* C16.  Skipper group tracking and end condition: skipCanonical raises    *)
(* the depth on each start-group tag and lowers it on each end-group tag,  *)
(* and fails with ErrUnexpectedEndOfGroupCanonical on an end-group tag at  *)
(* depth 0.  It reports success as soon as a field ends with the depth at  *)
(* 0, returning the index it has reached, whether or not input remains;    *)
(* it returns io.ErrUnexpectedEOF when the input is empty, ends inside a   *)
(* varint, or ends with the depth above 0.                                 *)
(***************************************************************************)
C16_GroupTrackingAndEnd ==
    /\ SkipTracksGroups
    /\ SkipTruncated
    /\ [](kind = "Skip" /\ skip.done /\ skip.err = "nil" => skip.depth = 0 /\ ~IsZero(skip.n) /\ ~skip.panic)
    /\ [][SkipAtIteration /\ skip'.done /\ skip'.err = "nil" /\ IsSmall(skip'.n) => NatOf(skip'.n) > skip.iNdEx]_vars

\* a group that holds a group was skipped as four bytes, with a field left
\* after it
C16_Witness ==
    /\ kind = "Skip" /\ skip.done
    /\ wire = <<11, 11, 12, 12, 8, 1>>
    /\ skip.err = "nil" /\ skip.depth = 0
    /\ skip.n = WordOfNat(4, 64)

\* C16 as stated: success only with the stream exhausted, and
\* io.ErrUnexpectedEOF for every other way of running out of input
C16_SuccessOnlyWhenExhausted ==
    /\ SkipTracksGroups
    /\ SkipTruncated
    /\ [](kind = "Skip" /\ skip.done /\ skip.err = "nil" => skip.depth = 0 /\ skip.n = WordOfNat(Len(wire), 64))

(***************************************************************************)
(* C19.  Decoder memory safety and termination: for every finite byte      *)
(* sequence given to an Unmarshal or to skipCanonical, no byte is read at  *)
(* an index outside [0, len); every loop iteration that goes on to another *)
(* leaves the read index strictly greater than it found it; the call       *)
(* returns; and when Unmarshal returns nil the read index equals len.      *)
(***************************************************************************)
C19_DecoderSafetyAndTermination ==
    /\ [](~dec.panic /\ ~skip.panic)
    /\ [][AtIteration /\ dec'.err = "nil" => dec'.iNdEx > dec.iNdEx]_vars
    /\ [][SkipAtIteration /\ ~skip'.done => skip'.iNdEx > skip.iNdEx]_vars
    /\ [](pc = "unmarshaled" /\ dec.err = "nil" => dec.iNdEx = Len(wire))
    /\ (pc = "unmarshaling" ~> pc = "unmarshaled")
    /\ (pc = "skipping" ~> skip.done)

\* Unmarshal of a proposal returned nil at the end of four bytes that hold
\* one length-delimited field numbered 99
C19_Witness ==
    /\ pc = "unmarshaled" /\ kind = "Proposal"
    /\ wire = <<154, 6, 1, 116>>
    /\ dec.err = "nil" /\ ~dec.panic
    /\ dec.iNdEx = 4

\* the names of the fields of a message type, by field number
FieldNames(k) ==
    CASE k = "PartSetHeader" -> <<"Total", "Hash">>
      [] k = "BlockID" -> <<"Hash", "PartSetHeader">>
      [] k = "Proposal" -> <<"Type", "Height", "Round", "POLRound", "BlockID", "Timestamp", "ChainID">>
      [] k = "Vote" -> <<"Type", "Height", "Round", "BlockID", "Timestamp", "ChainID", "VoteExtension">>

\* the tag varint at the read index
TagAt == ReadVarint(wire, dec.iNdEx, 64)

\* tag >> 3 over the full 64-bit tag
FieldNumAt == Shr(TagAt.val, 3)

(***************************************************************************)
(* C20.  Field dispatch by exact field number: an iteration of a decoder   *)
(* changes a known field only when the field number carried by the tag     *)
(* varint (tag >> 3 over the full 64-bit tag) equals that field's number;  *)
(* a tag whose field number is 0 is rejected as illegal; a tag whose field *)
(* number is any other value outside the message's known numbers, however  *)
(* large, is handed to the skipper and changes no known field.             *)
(***************************************************************************)
C20_ExactFieldNumber ==
    [][AtIteration /\ kind \in Kinds /\ TagAt.err = "nil" =>
         /\ \A f \in 1..Len(FieldNames(kind)) :
               dec'.m[FieldNames(kind)[f]] # dec.m[FieldNames(kind)[f]] => FieldNumAt = WordOfNat(f, 64)
         /\ IsZero(FieldNumAt) => dec'.err \in {ErrIllegalTag, ErrEndGroupNonGroup}
         /\ ~IsZero(FieldNumAt) /\ (\A f \in 1..Len(FieldNames(kind)) : FieldNumAt # WordOfNat(f, 64)) =>
               /\ dec'.m = dec.m
               /\ wireTypeOf(TagAt.val) # 4 => dec' = SkipUnknown(wire, dec, dec.iNdEx)]_vars

\* the returned configuration, once serverRPCConfig has returned
Served == pc = "served" /\ cfg # <<>>

(***************************************************************************)
(* C17.  serverRPCConfig returns a configuration whose WriteTimeout is     *)
(* strictly greater than the given TimeoutBroadcastTxCommit, for every     *)
(* value of TimeoutBroadcastTxCommit and every default WriteTimeout; when  *)
(* the default is already greater it is kept, otherwise WriteTimeout is    *)
(* TimeoutBroadcastTxCommit plus one second; MaxBodyBytes and              *)
(* MaxHeaderBytes are copied from the RPC configuration.                   *)
(***************************************************************************)
C17_WriteTimeoutExceedsBroadcast ==
    Served =>
      /\ LtSigned(rpcConfig.TimeoutBroadcastTxCommit, cfg[1].WriteTimeout)
      /\ cfg[1].WriteTimeout = IF LtSigned(rpcConfig.TimeoutBroadcastTxCommit, defaultConfig.WriteTimeout) THEN defaultConfig.WriteTimeout ELSE Add(rpcConfig.TimeoutBroadcastTxCommit, Second)
      /\ cfg[1].MaxBodyBytes = rpcConfig.MaxBodyBytes
      /\ cfg[1].MaxHeaderBytes = rpcConfig.MaxHeaderBytes

(***************************************************************************)
(* C21.  Inspector server shutdown: once the context given to              *)
(* ListenAndServe or ListenAndServeTLS is cancelled, the watcher goroutine *)
(* eventually closes the listener; that goroutine never closes the         *)
(* listener before the context is done; and if Listen fails the error is   *)
(* returned at once and no watcher goroutine is started.                   *)
(***************************************************************************)
C21_ServerShutdown ==
    /\ (ctx = "done" /\ listener # "nil") ~> (watcher = "exited" /\ listener = "closed")
    /\ [][watcher' = "exited" /\ watcher # "exited" => ctx = "done" /\ listener' = "closed"]_vars
    /\ [][call.pc = "idle" /\ call'.err # "nil" => call'.pc = "returned" /\ call'.err = ErrListen /\ listener' = "nil"]_vars
    /\ [](call.err = ErrListen => watcher = "none" /\ call.pc = "returned")

\* ListenAndServeTLS has returned after the context was cancelled and the
\* watcher closed the listener
C21_Witness ==
    /\ call.pc = "returned" /\ call.tls /\ call.err = ErrServe
    /\ ctx = "done"
    /\ watcher = "exited"
    /\ listener = "closed"

\* Listen failed: the call returned its error with no watcher
C21_WitnessListenFails ==
    /\ call.pc = "returned" /\ call.err = ErrListen
    /\ watcher = "none" /\ listener = "nil"
    /\ ctx = "done"

(***************************************************************************)
(* C22.  Whenever a websocket client disconnects and the registered        *)
(* disconnect callback runs, the event bus subscriber it calls             *)
(* UnsubscribeAll on is initialised (not nil); the callback completes for  *)
(* every disconnect, and logs only for a callback that got an error.       *)
(***************************************************************************)
C22_DisconnectCallbackCompletes ==
    \A a \in RemoteAddrs :
       /\ conns[a] # "panicked"
       /\ conns[a] = "closed" => eventBus # "nil"
       /\ a \in logged => conns[a] = "closed"

====
